---------------------------- MODULE Spec2Model ----------------------------
(***************************************************************************)
(* Verification model of Child/Code/Erosion/erosion.cpp (CHILD landscape   *)
(* evolution model): the equilibrium tracker tEquilibCheck, the power-law  *)
(* detachment law tBedErodePwrLaw and the time integrators of tErosion.    *)
(*                                                                         *)
(* Real numbers (C++ double) are modelled as exact rationals <<n, d>> in   *)
(* lowest terms with d > 0; rounding is not modelled.  Times of the        *)
(* integrators are counted in units of 1e-8 time units, so that every      *)
(* time constant of the source is a whole number.                          *)
(***************************************************************************)
EXTENDS Integers, Sequences, FiniteSets, TLC

VARIABLES
  \* ---- mesh and timer, shared by every component
  z,          \* node -> elevation (rational)
  curTime,    \* tRunTimer::getCurrentTime()
  \* ---- tEquilibCheck
  eqState,    \* "none" (not constructed), "ok", "aborted"
  massList,   \* sequence of <<time, mean elevation>>
  longTime, longRate, shortRate,
  eqCall,     \* the last call made on the tracker: operation, state before, result
  \* ---- node attributes read and written by the capacity laws
  hydro,      \* node -> [Q, W, flood, tauc, drarea]: discharge, hydraulic width,
              \*   flood status, critical shear stress, drainage area
  slope,      \* node -> tLNode::getSlope()
  layers,     \* node -> layer stack, surface first: [depth, erody, sed, dgrade]
  tau,        \* node -> stored shear stress (setTau)
  DrDt,       \* node -> stored detachment rate (setDrDt)
  \* ---- tBedErodePwrLaw
  bedErode,   \* the law's parameters [kt, mb, nb, pb]
  lawState,   \* "ok" or "aborted" (ReportFatalError, failed assert)
  lawCall,    \* the last capacity-law call: shape, arguments, state before, result
  \* ---- stream network (tStreamNet) and the sediment fields of the nodes
  net,        \* flow directions, edge lengths, inlet and its load, uplift rate, ...
  order,      \* the active part of the node list, in list order
  DzDt,       \* node -> stored rate of elevation change (setDzDt)
  Qs, Qsin,   \* node -> total transport rate and total sediment influx
  Qsm, Qsinm, \* node -> the same for each grain size
  alluv,      \* node -> alluvium thickness (getAlluvThickness)
  \* ---- tErosion
  sedTrans,   \* the transport law's parameters [kf, kt, mf, nf, pf, tauc]
  run,        \* the integrator invocation in progress: variant, position, times
  sub         \* per node, what the apply pass of the current sub-step did

eqVars == <<curTime, eqState, massList, longTime, longRate, shortRate, eqCall>>
nodeVars == <<hydro, slope, layers, tau, DrDt>>
lawVars == <<bedErode, lawState, lawCall>>
netVars == <<net, order>>
sedVars == <<DzDt, Qs, Qsin, Qsm, Qsinm, alluv>>
eroVars == <<sedTrans, run, sub>>
vars == <<z, eqVars, nodeVars, lawVars, netVars, sedVars, eroVars>>

---------------------------------------------------------------------------
(* Exact rational arithmetic standing for C++ double arithmetic.            *)

Abs(x) == IF x < 0 THEN -x ELSE x

RECURSIVE Gcd(_, _)
Gcd(a, b) == IF b = 0 THEN a ELSE Gcd(b, a % b)

RNorm(n, d) ==
  LET g == Gcd(Abs(n), Abs(d))
      s == IF d < 0 THEN -1 ELSE 1
  IN <<(s * n) \div g, (s * d) \div g>>

R(n) == <<n, 1>>
RZero == <<0, 1>>

RAdd(a, b) ==
  IF a[1] = 0 THEN b
  ELSE IF b[1] = 0 THEN a
  ELSE LET g == Gcd(a[2], b[2])
       IN RNorm(a[1] * (b[2] \div g) + b[1] * (a[2] \div g), (a[2] \div g) * b[2])

RNeg(a) == <<-a[1], a[2]>>
RSub(a, b) == RAdd(a, RNeg(b))

RMul(a, b) ==
  IF a[1] = 0 \/ b[1] = 0 THEN RZero
  ELSE LET g1 == Gcd(Abs(a[1]), b[2])
           g2 == Gcd(Abs(b[1]), a[2])
       IN RNorm((a[1] \div g1) * (b[1] \div g2), (a[2] \div g2) * (b[2] \div g1))

\* b # 0 is required of the caller, as in the source
RDiv(a, b) == RMul(a, IF b[1] < 0 THEN <<-b[2], -b[1]>> ELSE <<b[2], b[1]>>)

\* n1/d1 < n2/d2 for n1, n2 >= 0 and d1, d2 > 0, by continued-fraction
\* expansion, so that no product is formed
RECURSIVE FracLt(_, _, _, _)
FracLt(n1, d1, n2, d2) ==
  LET q1 == n1 \div d1
      q2 == n2 \div d2
      r1 == n1 % d1
      r2 == n2 % d2
  IN IF q1 # q2 THEN q1 < q2
     ELSE IF r2 = 0 THEN FALSE
     ELSE IF r1 = 0 THEN TRUE
     ELSE FracLt(d2, r2, d1, r1)

RLt(a, b) ==
  IF a[1] < 0
  THEN IF b[1] < 0 THEN FracLt(-b[1], b[2], -a[1], a[2]) ELSE TRUE
  ELSE IF b[1] < 0 THEN FALSE ELSE FracLt(a[1], a[2], b[1], b[2])
RLe(a, b) == ~RLt(b, a)
RGt(a, b) == RLt(b, a)
RGe(a, b) == ~RLt(a, b)
RPos(a) == a[1] > 0
RNegative(a) == a[1] < 0
RMax(a, b) == IF RLt(a, b) THEN b ELSE a
RMin(a, b) == IF RLt(b, a) THEN b ELSE a
RAbs(a) == <<Abs(a[1]), a[2]>>

RECURSIVE RPow(_, _)
RPow(a, k) == IF k = 0 THEN R(1) ELSE RMul(a, RPow(a, k - 1))

RECURSIVE RSum(_, _)
RSum(f, S) == IF S = {} THEN RZero
              ELSE LET x == CHOOSE y \in S : TRUE
                   IN RAdd(f[x], RSum(f, S \ {x}))

---------------------------------------------------------------------------
(* The mesh: two active (interior) nodes and one boundary (outlet) node,    *)
(* which the active-node iterators never visit.                            *)

Nodes == {1, 2}
OutletNode == 0
AllNodes == Nodes \cup {OutletNode}

\* Voronoi areas of the nodes (tLNode::getVArea)
VArea(n) == IF n = 1 THEN R(1) ELSE R(2)

---------------------------------------------------------------------------
(* Node attributes and tBedErodePwrLaw (detachment capacity)                *)

\* a layer stack: regolith over bedrock
StackSedOverRock ==
  << [depth |-> R(1), erody |-> R(1), sed |-> 1, dgrade |-> <<R(1)>>],
     [depth |-> R(4), erody |-> R(3), sed |-> 0, dgrade |-> <<R(4)>>] >>

\* the attributes of a node no component has touched
NodesIdle ==
  /\ hydro = [n \in AllNodes |-> [Q |-> R(1), W |-> R(1), flood |-> FALSE,
                                  tauc |-> RZero, drarea |-> R(1)]]
  /\ slope = [n \in AllNodes |-> RZero]
  /\ layers = [n \in AllNodes |-> StackSedOverRock]
  /\ tau = [n \in AllNodes |-> RZero]
  /\ DrDt = [n \in AllNodes |-> RZero]

NoLawCall == [shape |-> "none", node |-> 0, lyr |-> 0, dt |-> RZero, ok |-> TRUE,
              ret |-> RZero, preTau |-> RZero, preDrDt |-> RZero]

LawIdle ==
  /\ bedErode = [kt |-> R(1), mb |-> 1, nb |-> 1, pb |-> 1]
  /\ lawState = "ok"
  /\ lawCall = NoLawCall

\* layer numbers of the source count from 0
getLayerErody(n, i) == layers[n][i + 1].erody

\* (mutant) the stress of the whole discharge, not of the discharge per width
ShearStressOfDischarge(n) ==
  RMul(bedErode.kt,
       RMul(RPow(hydro[n].Q, bedErode.mb), RPow(slope[n], bedErode.nb)))

\* tau = kt * pow( Q / W, mb ) * pow( slp, nb )
ShearStress(n) ==
  RMul(bedErode.kt,
       RMul(RPow(RDiv(hydro[n].Q, hydro[n].W), bedErode.mb),
            RPow(slope[n], bedErode.nb)))

\* (mutant) the excess stress taken as it is, negative or not
DetachRateUnclamped(n, i) ==
  RMul(getLayerErody(n, i),
       RPow(RSub(ShearStress(n), hydro[n].tauc), bedErode.pb))
\* erodibility of layer i times pow( max(tau - tauc, 0), pb )
DetachRate(n, i) ==
  LET tauex == RSub(ShearStress(n), hydro[n].tauc)
  IN RMul(getLayerErody(n, i),
          RPow(IF RPos(tauex) THEN tauex ELSE RZero, bedErode.pb))

\* (mutant) the slope test made before the flood test
DetachCapacityOutcomeSlopeFirst(n, shape, i, dt) ==
  LET set == [ok |-> TRUE, ret |-> DetachRate(n, i), tau |-> ShearStress(n),
              DrDt |-> IF shape = "depth" THEN DrDt[n] ELSE RNeg(DetachRate(n, i))]
      keep == [ok |-> TRUE, ret |-> RZero, tau |-> tau[n], DrDt |-> DrDt[n]]
      abort == [keep EXCEPT !.ok = FALSE]
  IN IF shape = "rate" /\ RNegative(hydro[n].Q) THEN abort
     ELSE IF RNegative(slope[n]) THEN abort
     ELSE IF hydro[n].flood THEN keep
     ELSE IF shape = "rate" /\ RNegative(hydro[n].drarea) THEN abort
     ELSE IF shape = "depth" THEN [set EXCEPT !.ret = RMul(DetachRate(n, i), dt)]
     ELSE set

\* The three call shapes of DetachCapacity: "depth" (node, dt), "rate" (node)
\* and "layer" (node, layer).  The outcome: abort (ok = FALSE), or the returned
\* value and the node's tau and DrDt after the call.
DetachCapacityOutcome(n, shape, i, dt) ==
  LET set == [ok |-> TRUE, ret |-> DetachRate(n, i), tau |-> ShearStress(n),
              DrDt |-> IF shape = "depth" THEN DrDt[n] ELSE RNeg(DetachRate(n, i))]
      keep == [ok |-> TRUE, ret |-> RZero, tau |-> tau[n], DrDt |-> DrDt[n]]
      abort == [keep EXCEPT !.ok = FALSE]
  IN IF shape = "rate" /\ RNegative(hydro[n].Q) THEN abort       \* assert( Q >= 0 )
     ELSE IF hydro[n].flood THEN keep                            \* return 0.0
     ELSE IF RNegative(slope[n]) THEN abort                      \* ReportFatalError
     ELSE IF shape = "rate" /\ RNegative(hydro[n].drarea) THEN abort  \* assert
     ELSE IF shape = "depth" THEN [set EXCEPT !.ret = RMul(DetachRate(n, i), dt)]
     ELSE set

\* a capacity-law call made directly on node n
CallDetach(n, shape, i, dt) ==
  LET o == DetachCapacityOutcome(n, shape, i, dt)
  IN /\ lawState = "ok"
     /\ tau' = [tau EXCEPT ![n] = o.tau]
     /\ DrDt' = [DrDt EXCEPT ![n] = o.DrDt]
     /\ lawState' = IF o.ok THEN "ok" ELSE "aborted"
     /\ lawCall' = [shape |-> shape, node |-> n, lyr |-> i, dt |-> dt, ok |-> o.ok,
                    ret |-> o.ret, preTau |-> tau[n], preDrDt |-> DrDt[n]]
     /\ UNCHANGED <<z, eqVars, hydro, slope, layers, bedErode, netVars, sedVars, eroVars>>

\* DetachCapacity( tLNode * n, double dt )
DetachCapacityDepth == \E n \in Nodes, dt \in {R(1), R(3)} : CallDetach(n, "depth", 0, dt)
\* DetachCapacity( tLNode * n )
DetachCapacityRate == \E n \in Nodes : CallDetach(n, "rate", 0, RZero)
\* DetachCapacity( tLNode * n, int i )
DetachCapacityLayer == \E n \in Nodes, i \in {0, 1} : CallDetach(n, "layer", i, RZero)

\* no stream network in use
NoNet ==
  [dnbr |-> [n \in Nodes |-> OutletNode], len |-> [n \in Nodes |-> R(1)],
   inlet |-> -1, inSedLoad |-> RZero, insed |-> <<RZero>>, uplift |-> RZero,
   rainRate |-> R(2), infilt |-> R(1), chanDepth |-> [n \in Nodes |-> R(1)],
   maxregdep |-> R(1)]

\* no integrator invoked
NoRun ==
  [variant |-> "none", pc |-> "idle", i |-> 0, dtg0 |-> RZero, dtg |-> RZero,
   dtmax |-> RZero, dtmin |-> RZero, elapsed |-> RZero, nsub |-> 0,
   sorts |-> 0, geoms |-> 0, timegb |-> RZero]

NoSub ==
  [n \in Nodes |-> [done |-> FALSE, handed |-> RZero, z0 |-> RZero,
                    qsinAt |-> <<>>, sent |-> <<>>, ret |-> <<>>,
                    regime |-> "none", excap |-> RZero, ratediff |-> RZero]]

EroIdle ==
  /\ net = NoNet
  /\ order = <<1, 2>>
  /\ DzDt = [n \in AllNodes |-> RZero]
  /\ Qs = [n \in AllNodes |-> RZero]
  /\ Qsin = [n \in AllNodes |-> RZero]
  /\ Qsm = [n \in AllNodes |-> <<RZero>>]
  /\ Qsinm = [n \in AllNodes |-> <<RZero>>]
  /\ alluv = [n \in AllNodes |-> RZero]
  /\ sedTrans = [kf |-> R(1), kt |-> R(1), mf |-> 1, nf |-> 1, pf |-> 1, tauc |-> RZero]
  /\ run = NoRun
  /\ sub = NoSub

\* the tracker before its construction
NoCall == [op |-> "none", pre |-> <<>>, t |-> 0, ok |-> TRUE, arg |-> 0, ret |-> RZero]

EqIdle ==
  /\ curTime = 0
  /\ eqState = "none"
  /\ massList = <<>>
  /\ longTime = 0 /\ longRate = RZero /\ shortRate = RZero
  /\ eqCall = NoCall

\* node states the law may be handed: any discharge, width, slope (a negative
\* one signals a fault upstream), flood status and critical shear stress
LawNodeStates ==
  [Q : {R(-1), R(1), R(4)}, W : {R(1), R(2)}, flood : BOOLEAN,
   tauc : {RZero, R(3)}, drarea : {R(1)}]
LawSlopes == {R(-1), RZero, <<1, 2>>, R(2)}
LawParams == {[kt |-> R(2), mb |-> 1, nb |-> 1, pb |-> 1],
              [kt |-> R(2), mb |-> 0, nb |-> 2, pb |-> 1],
              [kt |-> R(2), mb |-> 2, nb |-> 1, pb |-> 2]}

InitLaw ==
  /\ EqIdle /\ EroIdle
  /\ z = [n \in AllNodes |-> RZero]
  /\ \E h \in LawNodeStates :
       hydro = [n \in AllNodes |->
                  IF n = 1 THEN h
                  ELSE [Q |-> R(1), W |-> R(1), flood |-> (n = 2), tauc |-> RZero,
                        drarea |-> R(-1)]]
  /\ \E s \in LawSlopes : slope = [n \in AllNodes |-> IF n = 1 THEN s ELSE R(-1)]
  /\ layers = [n \in AllNodes |-> StackSedOverRock]
  /\ tau = [n \in AllNodes |-> R(7)]
  /\ DrDt = [n \in AllNodes |-> R(7)]
  /\ bedErode \in LawParams
  /\ lawState = "ok"
  /\ lawCall = NoLawCall

NextLaw ==
  \/ DetachCapacityDepth
  \/ DetachCapacityRate
  \/ DetachCapacityLayer

SpecLaw == InitLaw /\ [][NextLaw]_vars

C10_WitnessFlooded ==
  /\ lawCall.shape = "depth" /\ lawCall.ok
  /\ RNegative(slope[lawCall.node]) /\ hydro[lawCall.node].flood

---------------------------------------------------------------------------
(* tEquilibCheck                                                            *)

MaxTime == 3
MaxLongTime == 2
\* elevations the surrounding simulation may leave at a node
ZVals == {R(0), R(3)}

\* mass / area of FindIterChngRate: the area-weighted mean elevation
MeanElev ==
  RDiv(RSum([n \in Nodes |-> RMul(z[n], VArea(n))], Nodes),
       RSum([n \in Nodes |-> VArea(n)], Nodes))

\* (mutant) the short rate always taken as mean / time, the previous entry ignored
IterChngRateNoPrev(ml, sr) ==
  LET tmp == <<curTime, MeanElev>>
      ok == IF ml # <<>> THEN tmp[1] - ml[Len(ml)][1] > 0 ELSE tmp[1] > 0
  IN IF ok
     THEN [ok |-> TRUE, massList |-> Append(ml, tmp),
           shortRate |-> RDiv(tmp[2], R(tmp[1]))]
     ELSE [ok |-> FALSE, massList |-> ml, shortRate |-> sr]

\* (mutant) the elapsed-time asserts left out: a sample with no positive
\* elapsed time is recorded and the short rate kept
IterChngRateNoAssert(ml, sr) ==
  LET tmp == <<curTime, MeanElev>>
      prev == IF ml # <<>> THEN ml[Len(ml)] ELSE <<0, RZero>>
      dt == tmp[1] - prev[1]
  IN [ok |-> TRUE, massList |-> Append(ml, tmp),
      shortRate |-> IF dt > 0 THEN RDiv(RSub(tmp[2], prev[2]), R(dt)) ELSE sr]

\* FindIterChngRate applied to history ml and short rate sr: the aborting
\* assert (ok = FALSE) or the appended history and the new short rate.
IterChngRate(ml, sr) ==
  LET tmp == <<curTime, MeanElev>>
  IN IF ml # <<>>
     THEN LET last == ml[Len(ml)]
              dt == tmp[1] - last[1]
          IN IF dt > 0
             THEN [ok |-> TRUE, massList |-> Append(ml, tmp),
                   shortRate |-> RDiv(RSub(tmp[2], last[2]), R(dt))]
             ELSE [ok |-> FALSE, massList |-> ml, shortRate |-> sr]
     ELSE IF tmp[1] > 0
          THEN [ok |-> TRUE, massList |-> Append(ml, tmp),
                shortRate |-> RDiv(tmp[2], R(tmp[1]))]
          ELSE [ok |-> FALSE, massList |-> ml, shortRate |-> sr]

\* (mutant) the scan also steps over an entry exactly at the target time
RECURSIVE ScanFromInclusive(_, _, _)
ScanFromInclusive(ml, k, targetTime) ==
  IF k + 1 < Len(ml) /\ ml[k + 1][1] <= targetTime
  THEN ScanFromInclusive(ml, k + 1, targetTime)
  ELSE k

\* The scan of FindLongTermChngRate: ca starts at the first entry and na at
\* the second; while na is older than targetTime both advance.  Returns the
\* index of ca.  (For longTime >= 0 the last entry is never older than
\* targetTime, so the iterator never runs off the list.)
RECURSIVE ScanFrom(_, _, _)
ScanFrom(ml, k, targetTime) ==
  IF k + 1 < Len(ml) /\ ml[k + 1][1] < targetTime
  THEN ScanFrom(ml, k + 1, targetTime)
  ELSE k

\* (mutant) longRate left at its initial value when the window is zero or the
\* history holds one entry
LongRateOfStale(ml, sr, lt) ==
  LET last == ml[Len(ml)]
      targetTime == last[1] - lt
  IN IF lt = 0 \/ Len(ml) = 1
     THEN RZero
     ELSE LET ca == ml[ScanFrom(ml, 1, targetTime)]
              dt == last[1] - ca[1]
          IN RDiv(RSub(last[2], ca[2]), R(dt))

\* The rate FindLongTermChngRate computes after FindIterChngRate has run.
LongRateOf(ml, sr, lt) ==
  LET last == ml[Len(ml)]
      targetTime == last[1] - lt
  IN IF lt = 0 \/ Len(ml) = 1
     THEN sr
     ELSE LET ca == ml[ScanFrom(ml, 1, targetTime)]
              dt == last[1] - ca[1]
          IN RDiv(RSub(last[2], ca[2]), R(dt))

\* setLongTime: non-positive values are stored as 0
SetLongTimeVal(val) == IF val > 0 THEN val ELSE 0

\* The default constructor leaves the history empty (mesh and timer are set
\* afterwards with setMeshPtr and setTimePtr).
ConstructDefault ==
  /\ eqState = "none"
  /\ eqState' = "ok"
  /\ massList' = <<>>
  /\ longTime' = 0 /\ longRate' = RZero /\ shortRate' = RZero
  /\ eqCall' = [NoCall EXCEPT !.op = "ctor0", !.t = curTime]
  /\ UNCHANGED <<z, curTime, nodeVars, lawVars, netVars, sedVars, eroVars>>

\* The constructors taking a mesh and a timer take a first sample; lt is 0 or
\* the EQUITIME item of the input file.
ConstructWithMesh ==
  /\ eqState = "none"
  /\ \E lt \in 0 .. MaxLongTime :
       LET r == IterChngRate(<<>>, RZero)
       IN /\ longTime' = lt
          /\ longRate' = RZero
          /\ massList' = r.massList
          /\ shortRate' = r.shortRate
          /\ eqState' = IF r.ok THEN "ok" ELSE "aborted"
          /\ eqCall' = [op |-> "ctor", pre |-> <<>>, t |-> curTime, ok |-> r.ok,
                        arg |-> lt, ret |-> RZero]
  /\ UNCHANGED <<z, curTime, nodeVars, lawVars, netVars, sedVars, eroVars>>

\* The surrounding simulation: time advances and elevations change.
Simulate ==
  /\ eqState = "ok"
  /\ \E t \in (curTime + 1) .. MaxTime : curTime' = t
  /\ \E zz \in [Nodes -> ZVals] :
       z' = [n \in AllNodes |-> IF n \in Nodes THEN zz[n] ELSE z[n]]
  /\ UNCHANGED <<eqState, massList, longTime, longRate, shortRate, eqCall, nodeVars, lawVars, netVars, sedVars, eroVars>>

FindIterChngRate ==
  /\ eqState = "ok"
  /\ LET r == IterChngRate(massList, shortRate)
     IN /\ massList' = r.massList
        /\ shortRate' = r.shortRate
        /\ eqState' = IF r.ok THEN "ok" ELSE "aborted"
        /\ eqCall' = [op |-> "iter", pre |-> massList, t |-> curTime, ok |-> r.ok,
                      arg |-> 0, ret |-> IF r.ok THEN r.shortRate ELSE RZero]
  /\ UNCHANGED <<z, curTime, longTime, longRate, nodeVars, lawVars, netVars, sedVars, eroVars>>

\* FindLongTermChngRate with the window length lt in force
LongTermWith(lt, opname, a) ==
  LET r == IterChngRate(massList, shortRate)
      lr == IF r.ok THEN LongRateOf(r.massList, r.shortRate, lt) ELSE longRate
  IN /\ massList' = r.massList
     /\ shortRate' = r.shortRate
     /\ longTime' = lt
     /\ longRate' = lr
     /\ eqState' = IF r.ok THEN "ok" ELSE "aborted"
     /\ eqCall' = [op |-> opname, pre |-> massList, t |-> curTime, ok |-> r.ok,
                   arg |-> a, ret |-> IF r.ok THEN lr ELSE RZero]
     /\ UNCHANGED <<z, curTime, nodeVars, lawVars, netVars, sedVars, eroVars>>

FindLongTermChngRate ==
  /\ eqState = "ok"
  /\ LongTermWith(longTime, "long", longTime)

\* FindLongTermChngRate( double newtime ): setLongTime, then the query
FindLongTermChngRateNew ==
  /\ eqState = "ok"
  /\ \E newtime \in -1 .. MaxLongTime :
       LongTermWith(SetLongTimeVal(newtime), "longNew", newtime)

setLongTime ==
  /\ eqState = "ok"
  /\ \E val \in -1 .. MaxLongTime :
       /\ longTime' = SetLongTimeVal(val)
       /\ eqCall' = [op |-> "set", pre |-> massList, t |-> curTime, ok |-> TRUE,
                     arg |-> val, ret |-> RZero]
  /\ UNCHANGED <<z, curTime, eqState, massList, longRate, shortRate, nodeVars, lawVars, netVars, sedVars, eroVars>>

InitEq ==
  /\ NodesIdle /\ LawIdle /\ EroIdle
  /\ z \in [AllNodes -> ZVals]
  /\ z[OutletNode] = R(0)
  /\ curTime \in {0, 1}
  /\ eqState = "none"
  /\ massList = <<>>
  /\ longTime = 0 /\ longRate = RZero /\ shortRate = RZero
  /\ eqCall = NoCall

NextEq ==
  \/ ConstructDefault
  \/ ConstructWithMesh
  \/ Simulate
  \/ FindIterChngRate
  \/ FindLongTermChngRate
  \/ FindLongTermChngRateNew
  \/ setLongTime

SpecEq == InitEq /\ [][NextEq]_vars

---------------------------------------------------------------------------
(* Properties of tEquilibCheck                                              *)

SamplingOps == {"ctor", "iter", "long", "longNew"}
LongOps == {"long", "longNew"}
LastOf(ml) == ml[Len(ml)]
\* rate of change between two history entries
RateBetween(a, b) == RDiv(RSub(b[2], a[2]), R(b[1] - a[1]))

\* C5: every successful sampling call appends exactly one entry <<current
\* time, area-weighted mean elevation>> at the back of the history, and
\* FindIterChngRate returns the short-term rate: (new mean - previous mean) /
\* (new time - previous time) against the most recent earlier entry, or
\* mean / time when the history was empty.
C5_IterAppendsAndRates ==
  (eqCall.op \in SamplingOps /\ eqCall.ok) =>
    /\ Len(massList) = Len(eqCall.pre) + 1
    /\ SubSeq(massList, 1, Len(eqCall.pre)) = eqCall.pre
    /\ LastOf(massList)[1] = eqCall.t
    /\ (curTime = eqCall.t =>
          RMul(LastOf(massList)[2], RSum([n \in Nodes |-> VArea(n)], Nodes))
            = RSum([n \in Nodes |-> RMul(z[n], VArea(n))], Nodes))
    /\ shortRate = IF eqCall.pre = <<>>
                   THEN RDiv(LastOf(massList)[2], R(eqCall.t))
                   ELSE RateBetween(LastOf(eqCall.pre), LastOf(massList))
    /\ (eqCall.op = "iter" => eqCall.ret = shortRate)

C5_Witness ==
  /\ eqCall.op = "iter" /\ eqCall.ok
  /\ Len(eqCall.pre) >= 1
  /\ RPos(eqCall.ret)
  /\ z[1] # z[2]

\* The entry the source's scan stops at: the latest entry older than the
\* target time, or the oldest entry when none is older.
LatestBefore(ml, targetTime) ==
  LET older == {i \in 1 .. Len(ml) : ml[i][1] < targetTime}
  IN IF older = {} THEN ml[1]
     ELSE ml[CHOOSE i \in older : \A j \in older : j <= i]

\* The entry the claim names: the earliest entry at or after the target time.
EarliestAtOrAfter(ml, targetTime) ==
  LET newer == {i \in 1 .. Len(ml) : ml[i][1] >= targetTime}
  IN ml[CHOOSE i \in newer : \A j \in newer : i <= j]

LongQueryCase ==
  /\ eqCall.op \in LongOps /\ eqCall.ok
  /\ longTime > 0
  /\ Len(massList) >= 2

C7_ShortWindowGivesShortRate ==
  /\ (eqCall.op \in LongOps /\ eqCall.ok /\ (longTime = 0 \/ Len(massList) = 1))
       => (eqCall.ret = shortRate /\ longRate = shortRate)
  /\ (eqCall.op \in {"set", "longNew"} /\ eqCall.arg <= 0) => longTime = 0

C7_Witness ==
  /\ eqCall.op = "longNew" /\ eqCall.ok
  /\ eqCall.arg < 0
  /\ Len(massList) >= 2
  /\ ~(shortRate = RZero)

C7_WitnessSingle ==
  /\ eqCall.op = "long" /\ eqCall.ok
  /\ longTime > 0 /\ Len(massList) = 1

\* C8 (as claimed): a long-term query with a new window length, made with no
\* advance of time since the last recorded sample, succeeds, leaves the
\* history unchanged and returns the rate for the new window computed from
\* the recorded history.
C8_RequeryWithoutAdvance ==
  (eqCall.op = "longNew" /\ eqCall.pre # <<>> /\ eqCall.t = LastOf(eqCall.pre)[1]) =>
    /\ eqCall.ok
    /\ massList = eqCall.pre
    /\ eqCall.ret = LongRateOf(eqCall.pre, shortRate, longTime)

\* times of a history are strictly increasing
StrictlyIncreasing(ml) == \A i \in 1 .. Len(ml) - 1 : ml[i][1] < ml[i + 1][1]

---------------------------------------------------------------------------
(* tErosion: collaborators of the integrators                               *)

Min(a, b) == IF a < b THEN a ELSE b

RECURSIVE SeqSum(_)
SeqSum(s) == IF s = <<>> THEN RZero ELSE RAdd(s[1], SeqSum(Tail(s)))

ZeroSeq(k) == [j \in 1..k |-> RZero]

\* tLNode::getNumg
getNumg(n) == Len(layers[n][1].dgrade)

\* tLNode::getSlope: the drop to the downstream neighbour over the length of
\* the flow edge, never negative
getSlope(zz, n) ==
  LET s == RDiv(RSub(zz[n], zz[net.dnbr[n]]), net.len[n])
  IN IF RNegative(s) THEN RZero ELSE s

SlopeFromZ(zz) == [n \in AllNodes |-> IF n \in Nodes THEN getSlope(zz, n) ELSE RZero]

\* tLNode::OnBedrock and tLNode::EroDep( double dz ): the alluvium thickness
\* follows the elevation change and never becomes negative
kAlluvMin == <<1, 10>>
OnBedrock(n) == RLt(alluv[n], kAlluvMin)
AlluvAfter(a, dz) == RMax(RZero, RAdd(a, dz))

\* erodibility given to a layer that deposition creates on bare rock
NewLayerErody == <<1, 1000>>

\* tLNode::EroDep( int i, tArray<double> valgrd, double tt ): erode or deposit
\* val[j] of each size at layer i (counted from 0).  No more of a size is
\* removed than the layer holds; deposition on rock makes a new surface layer;
\* an emptied layer is removed.  Yields the new stack and the amounts realized.
EroDep(stack, i, val) ==
  LET lay == stack[i + 1]
      ng == Len(val)
      r == [j \in 1..ng |->
              IF RNegative(val[j]) THEN RMax(val[j], RNeg(lay.dgrade[j])) ELSE val[j]]
      pos == [j \in 1..ng |-> IF RPos(r[j]) THEN r[j] ELSE RZero]
      onRock == lay.sed = 0 /\ \E j \in 1..ng : RPos(r[j])
      chg == [j \in 1..ng |-> IF onRock /\ RPos(r[j]) THEN RZero ELSE r[j]]
      dg == [j \in 1..ng |-> RAdd(lay.dgrade[j], chg[j])]
      newlay == [lay EXCEPT !.dgrade = dg, !.depth = SeqSum(dg)]
      kept == IF newlay.depth = RZero
              THEN SubSeq(stack, 1, i) \o SubSeq(stack, i + 2, Len(stack))
              ELSE [stack EXCEPT ![i + 1] = newlay]
      top == [depth |-> SeqSum(pos), erody |-> NewLayerErody, sed |-> 1, dgrade |-> pos]
  IN [stack |-> IF onRock THEN <<top>> \o kept ELSE kept, ret |-> r]

\* tStreamNet::SortNodesByNetOrder: every node comes before its downstream
\* neighbour
IsNetOrder(o) ==
  \A a, b \in 1..Len(o) : net.dnbr[o[a]] = o[b] => a < b

NetOrders == {o \in {<<1, 2>>, <<2, 1>>} : IsNetOrder(o)}

\* tSedTransPwrLaw::TransCapacity( tLNode * ): tau, and
\* cap = kf * W * pow( max(tau - tauc, 0), pf ), zero when flooded
TransTau(n) ==
  RMul(sedTrans.kt,
       RMul(RPow(RDiv(hydro[n].Q, hydro[n].W), sedTrans.mf),
            RPow(slope[n], sedTrans.nf)))

TransCap(n) ==
  LET tauex == RSub(TransTau(n), sedTrans.tauc)
  IN RMul(sedTrans.kf,
          RMul(hydro[n].W, RPow(IF RPos(tauex) THEN tauex ELSE RZero, sedTrans.pf)))

\* outcome of the whole-node shape: abort, or the value returned (also stored
\* as the node's total Qs) and the node's tau
TransCapacityOutcome(n) ==
  IF RNegative(slope[n]) THEN [ok |-> FALSE, ret |-> RZero, tau |-> tau[n]]
  ELSE IF hydro[n].flood THEN [ok |-> TRUE, ret |-> RZero, tau |-> tau[n]]
  ELSE [ok |-> TRUE, ret |-> TransCap(n), tau |-> TransTau(n)]

\* outcome of the weighted shape for layer lyr, given the node's per-size Qs
\* so far: each size's Qs grows by its share of the layer, the total Qs is SET
\* to this call's capacity
TransCapacityLayerOutcome(n, lyr, weight, qsm) ==
  LET o == TransCapacityOutcome(n)
      cap == RMul(weight, o.ret)
      lay == layers[n][lyr + 1]
  IN [ok |-> o.ok, ret |-> cap, tau |-> o.tau,
      qsm |-> [j \in 1..Len(qsm) |->
                 RAdd(qsm[j], RDiv(RMul(cap, lay.dgrade[j]), lay.depth))]]

---------------------------------------------------------------------------
(* tErosion: the integrators.  An invocation goes through the passes of    *)
(* the source's do-while loop: "reset" (flux accumulators), "rate" (one    *)
(* step per active node), "step" (choice of the sub-step), "apply" (one    *)
(* step per active node), "time" (update of the time remaining).           *)

\* the most sub-steps the counter run.nsub tells apart
MaxSubCount == 3

DetachLimVariants == {"DetachLim", "DetachLimUplift"}

\* (mutant) the list walked from its end
cnodeFromEnd == order[Len(order) + 1 - run.i]
\* the node the pass is at
cnode == order[run.i]

\* the for loop over the active nodes: on to the next node, or to the next pass
NextNode(next) ==
  IF run.i < Len(order) THEN [run EXCEPT !.i = @ + 1]
  ELSE [run EXCEPT !.pc = next, !.i = 1]

Aborted == [run EXCEPT !.pc = "aborted"]

NewRun(variant, dtg, first) ==
  [NoRun EXCEPT !.variant = variant, !.pc = first, !.i = 1, !.dtg0 = dtg,
                !.dtg = dtg]

\* the record of a sub-step's apply pass, empty
NewSub ==
  [n \in Nodes |-> [done |-> FALSE, handed |-> RZero, z0 |-> z[n],
                    qsinAt |-> <<>>, sent |-> <<>>, ret |-> <<>>,
                    regime |-> "none", excap |-> RZero, ratediff |-> RZero]]

\* time constants of the source, in units of 1e-8
kFracDetachLim == <<9, 10>>     \* frac = 0.9
kMinDtDetachLim == R(500)       \* 0.000005
kTolDetachLim == R(10)          \* 0.0000001
kFracUplift == <<1, 10>>        \* frac = 0.1
\* (mutant) no least sub-step
kDtMinFactorNone == RZero
kDtMinFactor == <<1, 10000>>    \* dtmin = dtg * 0.0001
kFracStream == <<3, 10>>        \* frac = 0.3
kSmallTimeStep == R(1)          \* 1e-8
kTolStream == R(100)            \* 1e-6
kSmallDtMulti == R(100)         \* 1e-6
kForcedDtMulti == R(500000)     \* 0.005
kSmallDtDetach == R(10000)      \* 0.0001

(* ---- ErodeDetachLim, with and without uplift ---- *)

StartDetachLim ==
  /\ run.pc = "idle" /\ run.variant = "DetachLim"
  /\ run' = [NewRun("DetachLim", run.dtg0, "rate") EXCEPT !.geoms = 1]
  /\ UNCHANGED <<z, eqVars, nodeVars, lawVars, netVars, sedVars, sedTrans, sub>>

StartDetachLimUplift ==
  /\ run.pc = "idle" /\ run.variant = "DetachLimUplift"
  /\ run' = [NewRun("DetachLimUplift", run.dtg0, "rate") EXCEPT
                !.geoms = 1, !.dtmin = RMul(run.dtg0, kDtMinFactor)]
  /\ UNCHANGED <<z, eqVars, nodeVars, lawVars, netVars, sedVars, sedTrans, sub>>

\* cn->setDzDt( -bedErode.DetachCapacity( cn ) )
RateDetachLim ==
  /\ run.variant \in DetachLimVariants /\ run.pc = "rate"
  /\ \E cn \in {cnode} : \E o \in {DetachCapacityOutcome(cn, "rate", 0, RZero)} :
        /\ tau' = [tau EXCEPT ![cn] = o.tau]
        /\ DrDt' = [DrDt EXCEPT ![cn] = o.DrDt]
        /\ DzDt' = [DzDt EXCEPT ![cn] = IF o.ok THEN RNeg(o.ret) ELSE @]
        /\ run' = IF o.ok THEN NextNode("step") ELSE Aborted
  /\ UNCHANGED <<z, eqVars, hydro, slope, layers, lawVars, netVars,
                 Qs, Qsin, Qsm, Qsinm, alluv, sedTrans, sub>>

\* the largest step for which no slope reverses, nodes k.. of the list
\* still to be looked at
RECURSIVE DetachLimDtMax(_, _)
DetachLimDtMax(k, dtmax) ==
  IF k > Len(order) THEN dtmax
  ELSE LET cn == order[k]
           ratediff == RSub(DzDt[net.dnbr[cn]], DzDt[cn])
           dt == RMul(RDiv(RSub(z[cn], z[net.dnbr[cn]]), ratediff), kFracDetachLim)
       IN DetachLimDtMax(k + 1,
            IF RPos(ratediff) /\ RGt(dt, kMinDtDetachLim) /\ RLt(dt, dtmax)
            THEN dt ELSE dtmax)

StepDetachLim ==
  /\ run.variant = "DetachLim" /\ run.pc = "step"
  /\ run' = [run EXCEPT !.dtmax = DetachLimDtMax(1, run.dtg), !.pc = "apply"]
  /\ sub' = NewSub
  /\ UNCHANGED <<z, eqVars, nodeVars, lawVars, netVars, sedVars, sedTrans>>

\* (mutant) the uplift taken off where the downstream neighbour is not a
\* boundary node
UpliftRateDiffInside(cn) ==
  IF net.dnbr[cn] \in Nodes
  THEN RSub(RSub(DzDt[net.dnbr[cn]], DzDt[cn]), net.uplift)
  ELSE RSub(DzDt[net.dnbr[cn]], DzDt[cn])

\* the rate difference of the uplift variant
UpliftRateDiff(cn) ==
  IF net.dnbr[cn] \in Nodes          \* getBoundaryFlag() == kNonBoundary
  THEN RSub(DzDt[net.dnbr[cn]], DzDt[cn])
  ELSE RSub(RSub(DzDt[net.dnbr[cn]], DzDt[cn]), net.uplift)

RECURSIVE UpliftDtMax(_, _)
UpliftDtMax(k, dtmax) ==
  IF k > Len(order) THEN dtmax
  ELSE LET cn == order[k]
           ratediff == UpliftRateDiff(cn)
           dt == RMul(RDiv(RSub(z[cn], z[net.dnbr[cn]]), ratediff), kFracUplift)
       IN UpliftDtMax(k + 1,
            IF RPos(ratediff) /\ RGt(z[cn], z[net.dnbr[cn]])
            THEN IF RGt(dt, run.dtmin) /\ RLt(dt, dtmax) THEN dt ELSE run.dtmin
            ELSE dtmax)

StepDetachLimUplift ==
  /\ run.variant = "DetachLimUplift" /\ run.pc = "step"
  /\ run' = [run EXCEPT !.dtmax = UpliftDtMax(1, run.dtg), !.pc = "apply"]
  /\ sub' = [n \in Nodes |-> [NewSub[n] EXCEPT !.ratediff = UpliftRateDiff(n)]]
  /\ UNCHANGED <<z, eqVars, nodeVars, lawVars, netVars, sedVars, sedTrans>>

\* (mutant) the rate taken with the sign of the capacity
HandedDepthUp(cn) == RMul(RNeg(DzDt[cn]), run.dtmax)

\* valgrd[0] = cn->getDzDt() * dtmax
HandedDepth(cn) == RMul(DzDt[cn], run.dtmax)

\* cn->EroDep( 0, valgrd, 0 )
ApplyDetachLim ==
  /\ run.variant \in DetachLimVariants /\ run.pc = "apply"
  /\ \E cn \in {cnode} : \E val \in {HandedDepth(cn)} :
     \E e \in {EroDep(layers[cn], 0, <<val>>)} :
        /\ layers' = [layers EXCEPT ![cn] = e.stack]
        /\ z' = [z EXCEPT ![cn] = RAdd(@, SeqSum(e.ret))]
        /\ sub' = [sub EXCEPT ![cn] = [@ EXCEPT !.done = TRUE, !.handed = val,
                                                !.ret = e.ret]]
  /\ slope' = SlopeFromZ(z')
  /\ run' = NextNode("time")
  /\ UNCHANGED <<eqVars, hydro, tau, DrDt, lawVars, netVars, sedVars, sedTrans>>

(* ---- StreamErode ---- *)

StartStreamErode ==
  /\ run.pc = "idle" /\ run.variant = "StreamErode"
  /\ \E dtg \in {run.dtg0}, o \in NetOrders :
       /\ order' = o                               \* SortNodesByNetOrder
       /\ run' = [NewRun("StreamErode", dtg, "reset") EXCEPT !.sorts = 1]
  /\ UNCHANGED <<z, eqVars, nodeVars, lawVars, net, sedVars, sedTrans, sub>>

\* cn->setQsin( 0.0 ) for every active node
ResetStreamErode ==
  /\ run.variant = "StreamErode" /\ run.pc = "reset"
  /\ Qsin' = [n \in AllNodes |-> IF n \in Nodes THEN RZero ELSE Qsin[n]]
  /\ run' = [run EXCEPT !.pc = "rate", !.i = 1]
  /\ UNCHANGED <<z, eqVars, nodeVars, lawVars, netVars, DzDt, Qs, Qsm, Qsinm,
                 alluv, sedTrans, sub>>

\* sediment flux a node passes on: the flux in minus the rate of elevation
\* change times the node's area
OutFlux(qsin, rate, area) == RSub(qsin, RMul(rate, area))

RateStreamErode ==
  /\ run.variant = "StreamErode" /\ run.pc = "rate"
  /\ \E cn \in {cnode} : \E t \in {TransCapacityOutcome(cn)} :
     \E d \in {DetachCapacityOutcome(cn, "rate", 0, RZero)} :
     \E pedr0 \in {RDiv(RSub(Qsin[cn], t.ret), VArea(cn))} :
     LET pedr1 == IF cn = net.inlet
                  THEN RAdd(pedr0, RDiv(net.inSedLoad, VArea(cn))) ELSE pedr0
         bed == OnBedrock(cn) /\ RNegative(pedr1)
         dcap == RNeg(d.ret)
         pedr == IF bed /\ RGt(dcap, pedr1) THEN dcap ELSE pedr1
         ok == t.ok /\ (bed => d.ok)
     IN /\ tau' = [tau EXCEPT ![cn] = IF bed THEN d.tau ELSE t.tau]
        /\ DrDt' = [DrDt EXCEPT ![cn] = IF bed THEN d.DrDt ELSE @]
        /\ Qs' = [Qs EXCEPT ![cn] = IF t.ok THEN t.ret ELSE @]
        /\ DzDt' = [DzDt EXCEPT ![cn] = IF ok THEN pedr ELSE @]
        /\ Qsin' = IF ok
                   THEN [Qsin EXCEPT ![net.dnbr[cn]] = RAdd(@, OutFlux(Qsin[cn], pedr, VArea(cn)))]
                   ELSE Qsin
        /\ run' = IF ok THEN NextNode("step") ELSE Aborted
  /\ UNCHANGED <<z, eqVars, hydro, slope, layers, lawVars, netVars, Qsm, Qsinm,
                 alluv, sedTrans, sub>>

\* the time to zero slope of the most quickly converging pair, nodes k.. of
\* the list still to be looked at
RECURSIVE StreamDtMax(_, _)
StreamDtMax(k, dtmax) ==
  IF k > Len(order) THEN dtmax
  ELSE LET cn == order[k]
           ratediff == RSub(DzDt[net.dnbr[cn]], DzDt[cn])
           dt == RDiv(RSub(z[cn], z[net.dnbr[cn]]), ratediff)
       IN StreamDtMax(k + 1,
            IF RPos(ratediff) /\ RGt(z[cn], z[net.dnbr[cn]]) /\ RLt(dt, dtmax)
            THEN dt ELSE dtmax)

\* dtmax = dtg/frac; ...; dtmax *= frac; if( dtmax < kSmallTimeStep ) ...
StreamErodeStep ==
  LET dt == RMul(StreamDtMax(1, RDiv(run.dtg, kFracStream)), kFracStream)
  IN IF RLt(dt, kSmallTimeStep) THEN kSmallTimeStep ELSE dt

StepStreamErode ==
  /\ run.variant = "StreamErode" /\ run.pc = "step"
  /\ run' = [run EXCEPT !.dtmax = StreamErodeStep, !.pc = "apply"]
  /\ Qsin' = [n \in AllNodes |->
                IF n = net.inlet THEN net.inSedLoad
                ELSE IF n \in Nodes THEN RZero ELSE Qsin[n]]
  /\ sub' = NewSub
  /\ UNCHANGED <<z, eqVars, nodeVars, lawVars, netVars, DzDt, Qs, Qsm, Qsinm,
                 alluv, sedTrans>>

\* (mutant) the depth the excess capacity asks for, whatever the bed
StreamErodeDzAll(cn) ==
  RMul(RDiv(RSub(Qsin[cn], Qs[cn]), VArea(cn)), run.dtmax)

\* depth of erosion or deposition of a node over the sub-step; on bedrock no
\* more than the alluvium plus the bedrock that can be detached
StreamErodeDz(cn) ==
  LET dz == RMul(RDiv(RSub(Qsin[cn], Qs[cn]), VArea(cn)), run.dtmax)
      dzr == RMul(DrDt[cn], run.dtmax)
  IN IF OnBedrock(cn) /\ RNegative(dz)
        /\ RGt(RNeg(dz), RAdd(RNeg(dzr), alluv[cn]))
     THEN RSub(dzr, alluv[cn]) ELSE dz

\* (mutant) the flux passed on grows with deposition
SentFluxBack(qsin, dz, area, dt) == RAdd(qsin, RDiv(RMul(dz, area), dt))

\* cn->getQsin() - dz*cn->getVArea()/dtmax
SentFlux(qsin, dz, area, dt) == RSub(qsin, RDiv(RMul(dz, area), dt))

ApplyStreamErode ==
  /\ run.variant = "StreamErode" /\ run.pc = "apply"
  /\ \E cn \in {cnode} : \E dz \in {StreamErodeDz(cn)} :
     LET ok == RPos(run.dtmax)                      \* assert( dtmax>0 )
         out == SentFlux(Qsin[cn], dz, VArea(cn), run.dtmax)
     IN /\ z' = [z EXCEPT ![cn] = RAdd(@, dz)]     \* cn->EroDep( dz )
        /\ alluv' = [alluv EXCEPT ![cn] = AlluvAfter(@, dz)]
        /\ Qsin' = IF ok THEN [Qsin EXCEPT ![net.dnbr[cn]] = RAdd(@, out)] ELSE Qsin
        /\ sub' = [sub EXCEPT ![cn] =
                     [@ EXCEPT !.done = TRUE, !.handed = dz, !.qsinAt = <<Qsin[cn]>>,
                               !.sent = IF ok THEN <<out>> ELSE <<>>, !.ret = <<dz>>]]
        /\ run' = IF ok THEN NextNode("time") ELSE Aborted
  /\ slope' = SlopeFromZ(z')
  /\ UNCHANGED <<eqVars, hydro, layers, tau, DrDt, lawVars, netVars, DzDt, Qs,
                 Qsm, Qsinm, sedTrans>>

(* ---- StreamErodeMulti ---- *)

kMaxregdepTol == <<1, 1000>>    \* 0.001

StartStreamErodeMulti ==
  /\ run.pc = "idle" /\ run.variant = "StreamErodeMulti"
  /\ \E dtg \in {run.dtg0}, o \in NetOrders :
       /\ order' = o                               \* SortNodesByNetOrder
       /\ run' = [NewRun("StreamErodeMulti", dtg, "reset") EXCEPT
                    !.sorts = 1, !.geoms = 1, !.timegb = R(curTime)]
  /\ UNCHANGED <<z, eqVars, nodeVars, lawVars, net, sedVars, sedTrans, sub>>

\* total and per-size Qsin and Qs of every active node set to zero
ResetStreamErodeMulti ==
  /\ run.variant = "StreamErodeMulti" /\ run.pc = "reset"
  /\ Qsin' = [n \in AllNodes |-> IF n \in Nodes THEN RZero ELSE Qsin[n]]
  /\ Qs' = [n \in AllNodes |-> IF n \in Nodes THEN RZero ELSE Qs[n]]
  /\ Qsinm' = [n \in AllNodes |-> IF n \in Nodes THEN ZeroSeq(getNumg(n)) ELSE Qsinm[n]]
  /\ Qsm' = [n \in AllNodes |-> IF n \in Nodes THEN ZeroSeq(getNumg(n)) ELSE Qsm[n]]
  /\ run' = [run EXCEPT !.pc = "rate", !.i = 1]
  /\ UNCHANGED <<z, eqVars, nodeVars, lawVars, netVars, DzDt, alluv, sedTrans, sub>>

\* the surface layer is not at its full (maximum regolith) depth
NotFullRegolith(n) ==
  RGt(RAbs(RSub(layers[n][1].depth, net.maxregdep)), kMaxregdepTol)

\* share of the full regolith depth that the surface layer lacks
RegolithDeficit(n) == RSub(R(1), RDiv(layers[n][1].depth, net.maxregdep))

RateStreamErodeMulti ==
  /\ run.variant = "StreamErodeMulti" /\ run.pc = "rate"
  /\ \E cn \in {cnode} : \E t \in {TransCapacityOutcome(cn)} :
     \E d \in {DetachCapacityOutcome(cn, "rate", 0, RZero)} :
     \E pedr0 \in {RDiv(RSub(Qsin[cn], t.ret), VArea(cn))} :
     LET sedTop == layers[cn][1].sed > 0
         pedr1 == IF cn = net.inlet
                  THEN RAdd(pedr0, RDiv(net.inSedLoad, VArea(cn))) ELSE pedr0
         bed == layers[cn][2].sed = 0 /\ RNegative(pedr1) /\ NotFullRegolith(cn)
         useD == IF sedTop THEN bed ELSE TRUE
         pedr == IF sedTop
                 THEN IF bed THEN RAdd(pedr1, RMul(RNeg(d.ret), RegolithDeficit(cn)))
                      ELSE pedr1
                 ELSE RNeg(d.ret)
         ok == (sedTop => t.ok) /\ (useD => d.ok)
     IN /\ tau' = [tau EXCEPT ![cn] = IF useD THEN d.tau ELSE t.tau]
        /\ DrDt' = [DrDt EXCEPT ![cn] = IF useD THEN d.DrDt ELSE @]
        /\ Qs' = [Qs EXCEPT ![cn] = IF sedTop /\ t.ok THEN t.ret ELSE @]
        /\ DzDt' = [DzDt EXCEPT ![cn] = IF ok THEN pedr ELSE @]
        /\ Qsin' = IF ok
                   THEN [Qsin EXCEPT ![net.dnbr[cn]] = RAdd(@, OutFlux(Qsin[cn], pedr, VArea(cn)))]
                   ELSE Qsin
        /\ run' = IF ok THEN NextNode("step") ELSE Aborted
  /\ UNCHANGED <<z, eqVars, hydro, slope, layers, lawVars, netVars, Qsm, Qsinm,
                 alluv, sedTrans, sub>>

\* if( dt < dtmax ) dtmax = dt;  if( dt < 1e-6 ) dtmax = 0.005;
RECURSIVE MultiDtMax(_, _)
MultiDtMax(k, dtmax) ==
  IF k > Len(order) THEN dtmax
  ELSE LET cn == order[k]
           ratediff == RSub(DzDt[net.dnbr[cn]], DzDt[cn])
           dt == RDiv(RSub(z[cn], z[net.dnbr[cn]]), ratediff)
       IN MultiDtMax(k + 1,
            IF RPos(ratediff) /\ RGt(z[cn], z[net.dnbr[cn]])
            THEN IF RLt(dt, kSmallDtMulti) THEN kForcedDtMulti
                 ELSE IF RLt(dt, dtmax) THEN dt ELSE dtmax
            ELSE dtmax)

StepStreamErodeMulti ==
  /\ run.variant = "StreamErodeMulti" /\ run.pc = "step"
  /\ LET dt == RMul(MultiDtMax(1, RDiv(run.dtg, kFracStream)), kFracStream)
     IN run' = [run EXCEPT !.dtmax = dt, !.pc = "apply", !.timegb = RAdd(@, dt)]
  /\ Qsin' = [n \in AllNodes |-> IF n \in Nodes THEN RZero ELSE Qsin[n]]
  /\ Qsinm' = [n \in AllNodes |-> IF n \in Nodes THEN ZeroSeq(getNumg(n)) ELSE Qsinm[n]]
  /\ sub' = NewSub
  /\ UNCHANGED <<z, eqVars, nodeVars, lawVars, netVars, DzDt, Qs, Qsm, alluv, sedTrans>>

\* per-size addition to a node's influx: tLNode::addQsin( int, double ) adds
\* to the size's influx and to the total
AddQsinm(q, add) == [j \in 1..Len(q) |-> RAdd(q[j], add[j])]

ApplyStreamErodeMulti ==
  /\ run.variant = "StreamErodeMulti" /\ run.pc = "apply"
  /\ \E cn \in {cnode} :
     \E dz \in {[j \in 1..getNumg(cn) |->
                   RMul(RDiv(RSub(Qsinm[cn][j], Qsm[cn][j]), VArea(cn)), run.dtmax)]} :
     LET ng == getNumg(cn)
         st0 == layers[cn]
         dzt == SeqSum(dz)
         rockTop == st0[1].sed < 1
         thin == ~rockTop /\ NotFullRegolith(cn) /\ RNegative(dzt) /\ st0[2].sed < 1
         dzr == IF rockTop
                THEN [j \in 1..ng |->
                        RMul(RDiv(RMul(DrDt[cn], st0[1].dgrade[j]), st0[1].depth),
                             run.dtmax)]
                ELSE [j \in 1..ng |->
                        RMul(RMul(RDiv(RMul(DrDt[cn], st0[2].dgrade[j]), st0[2].depth),
                                  run.dtmax),
                             RDiv(RSub(net.maxregdep, st0[1].depth), net.maxregdep))]
         scour == (rockTop \/ thin) /\ RNegative(SeqSum(dzr))
     IN \E eb \in {IF scour THEN EroDep(st0, IF rockTop THEN 0 ELSE 1, dzr)
                    ELSE [stack |-> st0, ret |-> ZeroSeq(ng)]} :
        \E es \in {IF dzt # RZero THEN EroDep(eb.stack, 0, dz)
                    ELSE [stack |-> eb.stack, ret |-> ZeroSeq(ng)]} :
        \E ret \in {AddQsinm(eb.ret, es.ret)} :
        \E out \in {[j \in 1..ng |->
                       SentFlux(Qsinm[cn][j], ret[j], VArea(cn), run.dtmax)]} :
        /\ layers' = [layers EXCEPT ![cn] = es.stack]
        /\ z' = [z EXCEPT ![cn] = RAdd(@, SeqSum(ret))]
        /\ Qsinm' = [Qsinm EXCEPT ![net.dnbr[cn]] = AddQsinm(@, out)]
        /\ Qsin' = [Qsin EXCEPT ![net.dnbr[cn]] = RAdd(@, SeqSum(out))]
        /\ sub' = [sub EXCEPT ![cn] =
                     [@ EXCEPT !.done = TRUE, !.handed = dzt, !.qsinAt = Qsinm[cn],
                               !.sent = out, !.ret = ret]]
  /\ slope' = SlopeFromZ(z')
  /\ run' = NextNode("time")
  /\ UNCHANGED <<eqVars, hydro, tau, DrDt, lawVars, netVars, DzDt, Qs, Qsm,
                 alluv, sedTrans>>

(* ---- DetachErode ---- *)

kChanDepthMax == R(1000)            \* assert( cn->getChanDepth() < 1000 )
kDepthTol == <<1, 10000>>           \* 0.0001
kMinSlope == <<1, 10000000>>        \* 1e-7
kDzTiny == <<-1, 1000000000>>       \* -0.000000001
kSumTiny == <<-1, 10000000>>        \* -0.0000001

\* the do-while loop is skipped altogether without runoff
\* (mutant) the invocation runs whatever the rainfall
RunoffAlways == TRUE
\* if( strmNet->getRainRate() - strmNet->getInfilt() > 0 )
Runoff == RPos(RSub(net.rainRate, net.infilt))

StartDetachErode ==
  /\ run.pc = "idle" /\ run.variant = "DetachErode"
  /\ \E dtg \in {run.dtg0}, o \in NetOrders :
       IF Runoff
       THEN /\ order' = o                          \* SortNodesByNetOrder
            /\ run' = [NewRun("DetachErode", dtg, "reset") EXCEPT
                         !.sorts = 1, !.geoms = 1, !.timegb = R(curTime)]
       ELSE /\ order' = order
            /\ run' = NewRun("DetachErode", dtg, "done")
  /\ UNCHANGED <<z, eqVars, nodeVars, lawVars, net, sedVars, sedTrans, sub>>

\* the influx of a node without upstream contributions: the inlet's load
InletQsinm(n) == IF n = net.inlet THEN net.insed ELSE ZeroSeq(getNumg(n))

ResetDetachErode ==
  /\ run.variant = "DetachErode" /\ run.pc = "reset"
  /\ Qs' = [n \in AllNodes |-> IF n \in Nodes THEN RZero ELSE Qs[n]]
  /\ Qsm' = [n \in AllNodes |-> IF n \in Nodes THEN ZeroSeq(getNumg(n)) ELSE Qsm[n]]
  /\ Qsinm' = [n \in AllNodes |-> IF n \in Nodes THEN InletQsinm(n) ELSE Qsinm[n]]
  /\ Qsin' = [n \in AllNodes |-> IF n \in Nodes THEN SeqSum(InletQsinm(n)) ELSE Qsin[n]]
  /\ run' = [run EXCEPT !.pc = "rate", !.i = 1]
  /\ UNCHANGED <<z, eqVars, nodeVars, lawVars, netVars, DzDt, alluv, sedTrans, sub>>

\* The while loop over the layers within the channel depth: st.i is the next
\* layer, st.depck the depth passed, st.qs the capacity summed, st.last the
\* capacity of the last call (the node's total Qs).  Reading a layer the
\* stack does not have ends the run.
RECURSIVE ChanCapacity(_, _)
ChanCapacity(n, st) ==
  IF ~st.ok \/ ~RGt(RSub(net.chanDepth[n], st.depck), kDepthTol) THEN st
  ELSE IF st.i >= Len(layers[n]) THEN [st EXCEPT !.ok = FALSE]
  ELSE LET depth == layers[n][st.i + 1].depth
           weight == IF RLe(RAdd(st.depck, depth), net.chanDepth[n])
                     THEN RDiv(depth, net.chanDepth[n])
                     ELSE RSub(R(1), RDiv(st.depck, net.chanDepth[n]))
           t == TransCapacityLayerOutcome(n, st.i, weight, st.qsm)
       IN ChanCapacity(n, [i |-> st.i + 1, depck |-> RAdd(st.depck, depth),
                           qs |-> RAdd(st.qs, t.ret), qsm |-> t.qsm,
                           tau |-> t.tau, last |-> t.ret, ok |-> t.ok])

RateDetachErode ==
  /\ run.variant = "DetachErode" /\ run.pc = "rate"
  /\ \E cn \in {cnode} :
     \E c \in {ChanCapacity(cn, [i |-> 0, depck |-> RZero, qs |-> RZero,
                                 qsm |-> Qsm[cn], tau |-> tau[cn], last |-> Qs[cn],
                                 ok |-> RLt(net.chanDepth[cn], kChanDepthMax)])} :
     \E lyr \in {IF RGt(c.depck, net.chanDepth[cn]) THEN c.i - 1 ELSE c.i} :
     \E d \in {IF lyr < Len(layers[cn])
                THEN DetachCapacityOutcome(cn, "layer", lyr, RZero)
                ELSE [ok |-> FALSE, ret |-> RZero, tau |-> tau[cn], DrDt |-> DrDt[cn]]} :
     \E excap \in {RDiv(RSub(c.qs, Qsin[cn]), VArea(cn))} :
       LET ok == c.ok /\ d.ok
           drdt == RNeg(d.ret)
           dzdt == IF RGt(d.ret, excap) THEN RNeg(excap) ELSE drdt
       IN /\ tau' = [tau EXCEPT ![cn] = IF ok /\ ~hydro[cn].flood THEN d.tau ELSE c.tau]
          /\ Qs' = [Qs EXCEPT ![cn] = c.last]
          /\ Qsm' = [Qsm EXCEPT ![cn] = c.qsm]
          /\ DrDt' = [DrDt EXCEPT ![cn] = IF ok THEN drdt ELSE @]
          /\ DzDt' = [DzDt EXCEPT ![cn] = IF ok THEN dzdt ELSE @]
          /\ Qsin' = IF ok
                     THEN [Qsin EXCEPT ![net.dnbr[cn]] =
                             RAdd(@, OutFlux(Qsin[cn], dzdt, VArea(cn)))]
                     ELSE Qsin
          /\ run' = IF ok THEN NextNode("step") ELSE Aborted
  /\ UNCHANGED <<z, eqVars, hydro, slope, layers, lawVars, netVars, Qsinm,
                 alluv, sedTrans, sub>>

\* if( dt < dtmax ) dtmax = dt;  if( dt < 0.0001 ) dtmax = 0.0001;
RECURSIVE DetachDtMax(_, _)
DetachDtMax(k, dtmax) ==
  IF k > Len(order) THEN dtmax
  ELSE LET cn == order[k]
           ratediff == RSub(DzDt[net.dnbr[cn]], DzDt[cn])
           dt == RDiv(RSub(z[cn], z[net.dnbr[cn]]), ratediff)
       IN DetachDtMax(k + 1,
            IF RPos(ratediff) /\ RGt(slope[cn], kMinSlope)
            THEN IF RLt(dt, kSmallDtDetach) THEN kSmallDtDetach
                 ELSE IF RLt(dt, dtmax) THEN dt ELSE dtmax
            ELSE dtmax)

StepDetachErode ==
  /\ run.variant = "DetachErode" /\ run.pc = "step"
  /\ LET dt == RMul(DetachDtMax(1, RDiv(run.dtg, kFracStream)), kFracStream)
     IN run' = [run EXCEPT !.dtmax = dt, !.pc = "apply", !.timegb = RAdd(@, dt)]
  /\ Qsinm' = [n \in AllNodes |-> IF n \in Nodes THEN InletQsinm(n) ELSE Qsinm[n]]
  /\ Qsin' = [n \in AllNodes |-> IF n \in Nodes THEN SeqSum(InletQsinm(n)) ELSE Qsin[n]]
  /\ sub' = NewSub
  /\ UNCHANGED <<z, eqVars, nodeVars, lawVars, netVars, DzDt, Qs, Qsm, alluv, sedTrans>>

\* depth of a size that the flow can still take up (negative) or must drop
CapLimit(n, L, j) ==
  RDiv(RMul(RSub(L.qsinm[j], L.qsm[j]), run.dtmax), VArea(n))

\* what one EroDep call of the apply pass does to the running state L of the
\* node: the stack, the realized amounts, and the flux passed on for them
AfterEroDep(n, L, e) ==
  [L EXCEPT !.stack = e.stack,
            !.ret = AddQsinm(@, e.ret),
            !.push = [j \in 1..Len(e.ret) |->
                        RSub(@[j], RDiv(RMul(e.ret[j], VArea(n)), run.dtmax))]]

\* detachment-limited erosion, layer by layer from the surface
RECURSIVE DetachLimLoop(_, _)
DetachLimLoop(n, L) ==
  IF ~(RLt(L.dz, kDzTiny) /\ RLt(L.depck, net.chanDepth[n]) /\ L.i < Len(L.stack))
  THEN L
  ELSE LET lay == L.stack[L.i + 1]
           ng == Len(L.qsinm)
           whole == RLe(RNeg(L.dz), lay.depth)
           want == [j \in 1..ng |->
                      IF whole THEN RDiv(RMul(L.dz, lay.dgrade[j]), lay.depth)
                      ELSE RNeg(lay.dgrade[j])]
           capped == [j \in 1..ng |-> RLt(want[j], CapLimit(n, L, j))]
           ero == [j \in 1..ng |-> IF capped[j] THEN CapLimit(n, L, j) ELSE want[j]]
           any == \E j \in 1..ng : capped[j]
           e == EroDep(L.stack, L.i, ero)
           L1 == AfterEroDep(n, L, e)
       IN DetachLimLoop(n,
            [L1 EXCEPT !.qsinm = [j \in 1..ng |-> IF capped[j] THEN RZero ELSE @[j]],
                       !.qsm = [j \in 1..ng |-> IF capped[j] THEN RZero ELSE @[j]],
                       !.zeroed = @ \/ any,
                       !.depck = RAdd(@, lay.depth),
                       !.dz = IF whole THEN RZero ELSE RSub(@, SeqSum(ero)),
                       !.i = IF ~whole /\ any THEN @ + 1 ELSE @])

\* transport-limited erosion: the deficit of each size is taken from the
\* layers in turn
RECURSIVE TransLimLoop(_, _)
TransLimLoop(n, L) ==
  IF ~L.ok \/ ~RLt(L.depck, net.chanDepth[n]) THEN L
  ELSE IF L.i >= Len(L.stack) THEN [L EXCEPT !.ok = FALSE]
  ELSE LET lay == L.stack[L.i + 1]
           ng == Len(L.qsinm)
           e == EroDep(L.stack, L.i, L.ero)
           left == [j \in 1..ng |-> RSub(L.ero[j], e.ret[j])]
           L1 == AfterEroDep(n, L, e)
       IN TransLimLoop(n,
            [L1 EXCEPT !.ero = left,
                       !.depck = IF RGt(SeqSum(left), kSumTiny) THEN net.chanDepth[n]
                                 ELSE RAdd(@, lay.depth),
                       !.i = IF Len(e.stack) = Len(L.stack) THEN @ + 1 ELSE @])

\* (mutant) a detachment capacity equal to the excess capacity counts as
\* detachment-limited
RegimeDetachAtEquality(drdt, excap) ==
  IF RLe(RNeg(drdt), excap) THEN "detach" ELSE "trans"
\* if( -cn->getDrDt() < excap ): detach-lim, else trans-lim
Regime(drdt, excap) == IF RLt(RNeg(drdt), excap) THEN "detach" ELSE "trans"

\* the apply pass at one node
DetachErodeNode(cn) ==
  LET ng == getNumg(cn)
      excap == RDiv(RSub(Qs[cn], Qsin[cn]), VArea(cn))
      detachLim == Regime(DrDt[cn], excap) = "detach"
      dz == IF detachLim THEN RMul(DrDt[cn], run.dtmax)
            ELSE RMul(RNeg(excap), run.dtmax)
      L0 == [stack |-> layers[cn], qsinm |-> Qsinm[cn], qsm |-> Qsm[cn],
             push |-> Qsinm[cn], ret |-> ZeroSeq(ng), dz |-> dz, dz0 |-> dz,
             depck |-> RZero,
             i |-> 0, zeroed |-> FALSE, ok |-> TRUE, detachLim |-> detachLim,
             excap |-> excap,
             ero |-> [j \in 1..ng |->
                        RDiv(RMul(RSub(Qsinm[cn][j], Qsm[cn][j]), run.dtmax), VArea(cn))]]
  IN IF RNegative(dz)
     THEN IF detachLim THEN DetachLimLoop(cn, L0) ELSE TransLimLoop(cn, L0)
     ELSE IF RPos(dz) THEN AfterEroDep(cn, L0, EroDep(L0.stack, 0, L0.ero))
     ELSE L0

ApplyDetachErode ==
  /\ run.variant = "DetachErode" /\ run.pc = "apply"
  /\ \E cn \in {cnode} : \E L \in {DetachErodeNode(cn)} :
        /\ layers' = [layers EXCEPT ![cn] = L.stack]
        /\ z' = [z EXCEPT ![cn] = RAdd(@, SeqSum(L.ret))]
        /\ Qsinm' = [Qsinm EXCEPT ![cn] = L.qsinm, ![net.dnbr[cn]] = AddQsinm(@, L.push)]
        /\ Qsin' = [Qsin EXCEPT ![cn] = SeqSum(L.qsinm),
                                ![net.dnbr[cn]] = RAdd(@, SeqSum(L.push))]
        /\ Qsm' = [Qsm EXCEPT ![cn] = L.qsm]
        /\ Qs' = [Qs EXCEPT ![cn] = IF L.zeroed THEN SeqSum(L.qsm) ELSE @]
        /\ sub' = [sub EXCEPT ![cn] =
                     [@ EXCEPT !.done = TRUE, !.handed = L.dz0, !.qsinAt = Qsinm[cn],
                               !.sent = L.push, !.ret = L.ret, !.excap = L.excap,
                               !.regime = IF L.detachLim THEN "detach" ELSE "trans"]]
        /\ run' = IF L.ok THEN NextNode("time") ELSE Aborted
  /\ slope' = SlopeFromZ(z')
  /\ UNCHANGED <<eqVars, hydro, tau, DrDt, lawVars, netVars, DzDt, alluv, sedTrans>>

(* ---- the end of a sub-step, all variants ---- *)

\* the do-while loop goes on while the time remaining exceeds this
LoopTol(variant) ==
  CASE variant = "DetachLim" -> kTolDetachLim
    [] variant = "DetachLimUplift" -> RZero
    [] OTHER -> kTolStream

FirstPass(variant) == IF variant \in DetachLimVariants THEN "rate" ELSE "reset"

\* dtg -= dtmax
TimeLeft(dtg, dtmax) == RSub(dtg, dtmax)

UpdateTime ==
  /\ run.pc = "time"
  /\ LET left == TimeLeft(run.dtg, run.dtmax)
     IN run' = [run EXCEPT !.dtg = left,
                           !.elapsed = RAdd(@, run.dtmax),
                           !.nsub = Min(@ + 1, MaxSubCount),
                           !.pc = IF RGt(left, LoopTol(run.variant))
                                  THEN FirstPass(run.variant) ELSE "done",
                           !.i = 1]
  /\ UNCHANGED <<z, eqVars, nodeVars, lawVars, netVars, sedVars, sedTrans, sub>>

(* ---- the situations the integrators are started in ---- *)

Chain == [n \in Nodes |-> IF n = 2 THEN 1 ELSE OutletNode]   \* 2 -> 1 -> outlet
Parallel == [n \in Nodes |-> OutletNode]                     \* 1 -> outlet <- 2

NetShapes ==
  {[dnbr |-> Chain, order |-> <<1, 2>>], [dnbr |-> Chain, order |-> <<2, 1>>],
   [dnbr |-> Parallel, order |-> <<1, 2>>]}

\* layer stacks for ng grain sizes: regolith over rock, and bare rock
Grading(depth, ng) == [j \in 1..ng |-> RDiv(depth, R(ng))]
SedLayer(ng) == [depth |-> R(1), erody |-> <<1, 500>>, sed |-> 1, dgrade |-> Grading(R(1), ng)]
RockLayer(ng) == [depth |-> R(1000), erody |-> <<1, 1000>>, sed |-> 0,
                  dgrade |-> Grading(R(1000), ng)]
SedOverRock(ng) == <<SedLayer(ng), RockLayer(ng)>>
BareRock(ng) == <<RockLayer(ng)>>
\* regolith thinner than the channel is deep, over rock
ThinSedOverRock(ng) ==
  <<[SedLayer(ng) EXCEPT !.depth = <<1, 4>>, !.dgrade = Grading(<<1, 4>>, ng)],
    RockLayer(ng)>>
Stacks(ng) == {SedOverRock(ng), BareRock(ng)}

\* discharge grows downstream
FlowOf(n) == [Q |-> IF n = 2 THEN R(1) ELSE R(2), W |-> R(1), flood |-> FALSE,
              tauc |-> RZero, drarea |-> R(1)]

\* detachment laws: independent of the slope, linear in it, and a weak one
BedErodeFlat == [kt |-> R(1), mb |-> 1, nb |-> 0, pb |-> 1]
BedErodeLinear == [kt |-> R(1), mb |-> 1, nb |-> 1, pb |-> 1]
BedErodeWeak == [kt |-> <<1, 100>>, mb |-> 1, nb |-> 0, pb |-> 1]

\* transport laws, linear in discharge and slope
SedTransOf(kf) == [kf |-> kf, kt |-> R(1), mf |-> 1, nf |-> 1, pf |-> 1, tauc |-> RZero]
SedTransFast == SedTransOf(<<1, 1000>>)
SedTransMid == SedTransOf(<<1, 2000>>)
SedTransSlow == SedTransOf(<<1, 40000>>)

\* The invocations examined: entry point, global increment dtg (in units of
\* 1e-8), network, elevations of nodes 1 and 2 (the outlet is at 0), layer
\* stacks of nodes 1 and 2, detachment law, transport law, uplift rate, inlet
\* node (-1: none).  The rainfall rate and the infiltration capacity are 2
\* and 1 unless said otherwise.
Wet == <<R(2), R(1)>>
\* rainfall equal to and below the infiltration capacity
Dry == {<<R(1), R(1)>>, <<R(1), R(2)>>}
Situations(variant, ng, dtgs, elevs, stacks1, stacks2, beds, trans, uplifts, inlets) ==
  {[variant |-> variant, ng |-> ng, dtg |-> d, shape |-> sh, zs |-> e, s1 |-> a,
    s2 |-> b, bed |-> l, trans |-> t, uplift |-> u, inlet |-> i, rain |-> Wet] :
     d \in dtgs, sh \in NetShapes, e \in elevs, a \in stacks1, b \in stacks2,
     l \in beds, t \in trans, u \in uplifts, i \in inlets}

\* the same situations under each of the given rainfalls
Under(rains, situations) == {[sc EXCEPT !.rain = r] : sc \in situations, r \in rains}

AllSituations ==
  Situations("DetachLim", 1, {R(5), R(1000), R(3000)},
             {<<R(2), R(3)>>, <<R(1), R(1)>>}, Stacks(1), Stacks(1),
             {BedErodeFlat, BedErodeLinear}, {SedTransFast}, {RZero}, {-1})
  \cup Situations("DetachLimUplift", 1, {R(10000)},
             {<<<<19999, 100>>, RZero>>, <<<<1999, 10>>, RZero>>},
             {BareRock(1)}, {BareRock(1)},
             {BedErodeFlat}, {SedTransFast}, {RZero}, {-1})
  \cup Situations("DetachLimUplift", 1, {R(10000)},
             {<<R(2), R(3)>>}, {BareRock(1)}, Stacks(1),
             {BedErodeFlat}, {SedTransFast}, {<<1, 100>>}, {-1})
  \cup Situations("StreamErode", 1, {<<1, 2>>, R(500)},
             {<<R(2), R(3)>>}, Stacks(1), Stacks(1),
             {BedErodeFlat, BedErodeLinear, BedErodeWeak}, {SedTransMid}, {RZero},
             {-1, 2})
  \cup Situations("StreamErode", 1, {<<1, 2>>, R(500)},
             {<<R(1), R(1)>>}, Stacks(1), Stacks(1),
             {BedErodeFlat, BedErodeLinear, BedErodeWeak}, {SedTransMid}, {RZero},
             {-1})
  \cup Situations("StreamErodeMulti", 2, {R(100)},
             {<<R(2), R(3)>>, <<<<1, 100>>, <<1, 50>>>>}, Stacks(2), Stacks(2),
             {BedErodeFlat, BedErodeLinear}, {SedTransMid}, {RZero}, {-1})
  \cup Situations("StreamErodeMulti", 2, {R(500)},
             {<<R(2), R(3)>>}, Stacks(2), Stacks(2),
             {BedErodeFlat}, {SedTransMid}, {RZero}, {-1})
  \cup Situations("StreamErodeMulti", 2, {R(500)},
             {<<R(2), R(3)>>}, Stacks(2), {SedOverRock(2)},
             {BedErodeLinear}, {SedTransMid}, {RZero}, {-1, 2})
  \cup Situations("DetachErode", 2, {R(150)},
             {<<R(2), R(3)>>, <<R(1), R(1)>>}, Stacks(2), Stacks(2),
             {BedErodeFlat, BedErodeLinear}, {SedTransFast}, {RZero}, {-1, 2})
  \cup Under(Dry, Situations("DetachErode", 2, {R(150)},
             {<<R(2), R(3)>>}, {SedOverRock(2)}, Stacks(2),
             {BedErodeFlat}, {SedTransFast}, {RZero}, {-1, 2}))
  \cup Situations("DetachErode", 2, {R(150)},
             {<<R(2), R(3)>>}, {ThinSedOverRock(2)}, {ThinSedOverRock(2)},
             {BedErodeFlat}, {SedTransFast}, {RZero}, {-1})
  \cup Situations("DetachErode", 2, {R(8000)},
             {<<R(2), R(3)>>, <<<<1, 4>>, R(3)>>}, Stacks(2), Stacks(2),
             {BedErodeWeak}, {SedTransSlow}, {RZero}, {-1, 2})

InitEro ==
  /\ EqIdle
  /\ lawState = "ok" /\ lawCall = NoLawCall
  /\ \E sc \in AllSituations :
       /\ net = [dnbr |-> sc.shape.dnbr, len |-> [n \in Nodes |-> R(1)],
                 inlet |-> sc.inlet, inSedLoad |-> <<1, 1000>>,
                 insed |-> Grading(<<1, 1000>>, sc.ng), uplift |-> sc.uplift,
                 rainRate |-> sc.rain[1], infilt |-> sc.rain[2],
                 chanDepth |-> [n \in Nodes |-> <<1, 2>>],
                 maxregdep |-> R(2)]
       /\ order = sc.shape.order
       /\ z = [n \in AllNodes |-> IF n = OutletNode THEN RZero ELSE sc.zs[n]]
       /\ layers = [n \in AllNodes |-> IF n = 2 THEN sc.s2 ELSE sc.s1]
       /\ Qsinm = [n \in AllNodes |->
                    IF n \in Nodes THEN Grading(R(5), sc.ng) ELSE ZeroSeq(sc.ng)]
       /\ Qsm = [n \in AllNodes |-> ZeroSeq(sc.ng)]
       /\ bedErode = sc.bed
       /\ sedTrans = sc.trans
       /\ run = [NoRun EXCEPT !.variant = sc.variant, !.dtg0 = sc.dtg]
  /\ hydro = [n \in AllNodes |-> FlowOf(n)]
  /\ slope = SlopeFromZ(z)
  /\ tau = [n \in AllNodes |-> RZero]
  /\ DrDt = [n \in AllNodes |-> RZero]
  /\ DzDt = [n \in AllNodes |-> RZero]
  /\ Qs = [n \in AllNodes |-> RZero]
  /\ Qsin = [n \in AllNodes |-> IF n \in Nodes THEN R(5) ELSE RZero]
  /\ alluv = [n \in AllNodes |-> IF layers[n][1].sed = 1 THEN R(1) ELSE RZero]
  /\ sub = NoSub

NextEro ==
  \/ StartDetachLim \/ StartDetachLimUplift \/ RateDetachLim
  \/ StepDetachLim \/ StepDetachLimUplift \/ ApplyDetachLim
  \/ StartStreamErode \/ ResetStreamErode \/ RateStreamErode
  \/ StepStreamErode \/ ApplyStreamErode
  \/ StartStreamErodeMulti \/ ResetStreamErodeMulti \/ RateStreamErodeMulti
  \/ StepStreamErodeMulti \/ ApplyStreamErodeMulti
  \/ StartDetachErode \/ ResetDetachErode \/ RateDetachErode
  \/ StepDetachErode \/ ApplyDetachErode
  \/ UpdateTime

SpecEro == InitEro /\ [][NextEro]_vars

\* an invocation that has not come to its end: one of the steps of NextEro
\* can be taken
Running == run.pc \notin {"done", "aborted"}

\* The same under the scheduling of a sequential program: an invocation that
\* has not come to its end takes its next step.  This is weak fairness of
\* NextEro, with the states in which a step of NextEro can be taken given by
\* Running.
FairSpecEro == SpecEro /\ ([]<>~Running \/ []<><<NextEro>>_vars)

---------------------------------------------------------------------------
(* Properties of the integrators                                            *)

SedimentVariants == {"StreamErode", "StreamErodeMulti", "DetachErode"}

\* C1 (as claimed): in every integrator the sub-steps of an invocation sum to
\* dtg: no sub-step is larger than the time still remaining, the time
\* remaining never becomes negative, and the loop stops with the remainder
\* within the variant's tolerance (DetachErode: when there is runoff).
C1_SubStepsSumToIncrement ==
  /\ run.pc \in {"apply", "time"} => RLe(run.dtmax, run.dtg)
  /\ ~RNegative(run.dtg)
  /\ (run.pc = "done" /\ (run.variant = "DetachErode" => Runoff)) =>
       /\ RLe(run.elapsed, run.dtg0)
       /\ RLe(RSub(run.dtg0, run.elapsed), LoopTol(run.variant))

\* C2: under the scheduling of a sequential program the sub-step loop of
\* every integrator comes to its end after finitely many sub-steps, also when
\* sub-steps are forced to the variant's least step.
C2_LoopTerminates == <>(run.pc = "done")

\* an invocation of the uplift variant that has ended after several sub-steps,
\* the last of them the least step dtmin
C2_Witness ==
  /\ run.variant = "DetachLimUplift" /\ run.pc = "done"
  /\ run.nsub >= 2
  /\ run.dtmax = run.dtmin

\* C3: in both detachment-limited integrators the depth handed to EroDep for
\* a node is never positive, and no step of an invocation raises the
\* elevation of an active node.
C3_NeverRaises ==
  [][run.variant \in DetachLimVariants =>
       \A n \in Nodes :
         /\ RLe(z'[n], z[n])
         /\ sub'[n].done => ~RPos(sub'[n].handed)]_vars

\* a sub-step of a detachment-limited integrator has lowered a node
C3_Witness ==
  /\ run.variant \in DetachLimVariants
  /\ \E n \in Nodes :
       sub[n].done /\ RNegative(sub[n].handed) /\ RLt(z[n], sub[n].z0)

\* C4: in the apply pass of StreamErode, StreamErodeMulti and DetachErode the
\* flux a node adds to its downstream neighbour's Qsin is, for every grain
\* size, the node's own Qsin less the depth applied at the node times its area
\* over the sub-step, the depths applied adding up to the node's change of
\* elevation; and without an inlet the change of the sum of z times area over
\* the active nodes in a sub-step is minus the flux passed to the outlet times
\* the sub-step.
C4_SedimentContinuity ==
  run.variant \in SedimentVariants =>
    /\ \A n \in Nodes :
         sub[n].done =>
           /\ RSub(z[n], sub[n].z0) = SeqSum(sub[n].ret)
           /\ \A j \in 1..Len(sub[n].sent) :
                sub[n].sent[j] =
                  RSub(sub[n].qsinAt[j],
                       RDiv(RMul(sub[n].ret[j], VArea(n)), run.dtmax))
           /\ SeqSum(sub[n].sent) =
                RSub(SeqSum(sub[n].qsinAt),
                     RDiv(RMul(RSub(z[n], sub[n].z0), VArea(n)), run.dtmax))
    /\ (run.pc = "time" /\ net.inlet = -1) =>
         RSum([n \in Nodes |-> RMul(RSub(z[n], sub[n].z0), VArea(n))], Nodes) =
           RNeg(RMul(run.dtmax,
                     RSum([n \in Nodes |->
                             IF net.dnbr[n] \in Nodes THEN RZero
                             ELSE SeqSum(sub[n].sent)], Nodes)))

\* the end of a sub-step without inlet in which a node that received sediment
\* from upstream has changed its elevation and passed sediment on
C4_Witness ==
  /\ run.variant \in SedimentVariants /\ run.pc = "time" /\ net.inlet = -1
  /\ \E n \in Nodes :
       /\ sub[n].done /\ z[n] # sub[n].z0
       /\ SeqSum(sub[n].qsinAt) # RZero
       /\ SeqSum(sub[n].sent) # RZero


---------------------------------------------------------------------------
(* The transport laws tSedTransPwrLaw, tSedTransPwrLawMulti,                *)
(* tSedTransWilcock and tSedTransMineTailings, called directly.             *)
(*                                                                          *)
(* Units.  The shear stresses of the Wilcock and mine-tailings laws are     *)
(* counted in units of taudim = RHO*GRAV, discharges in units of 1e6 per    *)
(* year.  A power with a non-integer exponent is computed exactly, from     *)
(* the root of its argument; the node states examined are those whose       *)
(* roots are rational.  The capacity formulas of the two laws end in        *)
(* factors that are irrational whatever the arguments (pow( tau, 1.5 ),     *)
(* pow( 1 - sqrt( taucrit / tau ), 4.5 ), pow( Q, 1.12 ), ...): a capacity  *)
(* is kept as a rational plus terms c * F( a ), F( a ) being such a factor, *)
(* a positive real that is named by its arguments and not evaluated.        *)

VRat(x) == [r |-> x, t |-> <<>>]
VZero == VRat(RZero)
VTerm(c, f, a) ==
  IF c[1] = 0 THEN VZero ELSE [r |-> RZero, t |-> << [c |-> c, f |-> f, a |-> a] >>]
VAdd(a, b) == [r |-> RAdd(a.r, b.r), t |-> a.t \o b.t]

RECURSIVE VSum(_)
VSum(s) == IF s = <<>> THEN VZero ELSE VAdd(s[1], VSum(Tail(s)))

\* The node's transport rates q = [s |-> total Qs, m |-> Qs of each size] and
\* the setters of tLNode: setQs( double ), setQs( int, double ), which keeps
\* the total the sum of the sizes, and addQs( int, double ), which adds to
\* the size and to the total.  Sizes count from 0 in the source.
QSetTotal(q, v) == [q EXCEPT !.s = v]
QSetSize(q, i, v) ==
  LET m == [q.m EXCEPT ![i + 1] = v] IN [s |-> VSum(m), m |-> m]
QAddSize(q, i, v) == [s |-> VAdd(q.s, v), m |-> [q.m EXCEPT ![i + 1] = VAdd(@, v)]]

\* roots that the examined node states need
Roots == {RZero, <<1, 2>>, R(1), R(2)}
RootOf(x, k) == CHOOSE r \in Roots : RPow(r, k) = x
\* pow( x, p/q ) for x >= 0
PowFrac(x, p, q) == RPow(RootOf(x, q), p)

\* constants of the headers, in the units of the model:
\* (RHOSED - RHO) * 9.81 / (RHO * GRAV), for RHO = 1000, RHOSED = 2650,
\* GRAV = 9.81; YEARPERSEC = 3.171e-8 and 1 / SECPERYEAR = 1 / 31536000 for a
\* discharge in units of 1e6 per year; 0.03 squared
kRhoRatio == <<33, 20>>
kYearPerSec == <<3171, 100000>>
kPerSecPerYear == <<125, 3942>>
kRoughSq == <<9, 10000>>

\* (mutant) the interpolation taken over 0.2 of sand fraction
kInterpSpanShort == <<-1, 5>>
\* the divisor -0.3 of the constructors: the sand fractions 0.10 and 0.40
kInterpSpan == <<-3, 10>>
kLowSand == <<1, 10>>
kHighSand == <<2, 5>>

\* tSedTransWilcock::tSedTransWilcock and tSedTransMineTailings::
\* tSedTransMineTailings, given the two grain diameters
WilcockLaw(kind, grade) ==
  LET refs == RMul(kRhoRatio, grade[1])
      refg == RMul(kRhoRatio, grade[2])
      k8531 == <<8531, 10000>>
      lowtaucs == RMul(RMul(RMul(RMul(<<4, 5>>, RDiv(grade[2], grade[1])), <<1, 25>>),
                            refs), k8531)
      lowtaucg == RMul(RMul(<<1, 25>>, refg), k8531)
      hightaucs == RMul(RMul(<<1, 25>>, refs), k8531)
      hightaucg == RMul(RMul(<<1, 100>>, refg), k8531)
      sands == RDiv(RSub(lowtaucs, hightaucs), kInterpSpan)
      gravs == RDiv(RSub(lowtaucg, hightaucg), kInterpSpan)
  IN [kind |-> kind, grade |-> grade, taudim |-> R(1),
      lowtaucs |-> lowtaucs, lowtaucg |-> lowtaucg,
      hightaucs |-> hightaucs, hightaucg |-> hightaucg,
      sands |-> sands, sandb |-> RSub(lowtaucs, RMul(sands, kLowSand)),
      gravs |-> gravs, gravb |-> RSub(lowtaucg, RMul(gravs, kLowSand))]

\* critical shear stress of the sand fraction, given the sand fraction of
\* the layer
SandTaucrit(persand) ==
  IF RLt(persand, kLowSand) THEN sedTrans.lowtaucs
  ELSE IF RLe(persand, kHighSand)
       THEN RAdd(RMul(sedTrans.sands, persand), sedTrans.sandb)
       ELSE sedTrans.hightaucs

\* and of the gravel fraction
GravelTaucrit(persand) ==
  IF RLt(persand, kLowSand) THEN sedTrans.lowtaucg
  ELSE IF RLe(persand, kHighSand)
       THEN RAdd(RMul(sedTrans.gravs, persand), sedTrans.gravb)
       ELSE sedTrans.hightaucg

\* tSedTransPwrLawMulti::tSedTransPwrLawMulti: mdTauc[i] =
\* thetac * (sig - rho) * g * mdGrndiam[i] = 0.045 * 1650 * 9.81 * diameter
kShields == <<291357, 400>>
PwrLawMultiLaw(p, grndiam, hidingexp) ==
  [kind |-> "PwrLawMulti", kf |-> p.kf, kt |-> p.kt, mf |-> p.mf, nf |-> p.nf,
   pf |-> p.pf, mdGrndiam |-> grndiam,
   mdTauc |-> [i \in 1..Len(grndiam) |-> RMul(kShields, grndiam[i])],
   mdHidingexp |-> hidingexp]

\* the sand fraction of layer lyr and the share of each size in it
LayerFrac(n, lyr, i) ==
  RDiv(layers[n][lyr + 1].dgrade[i + 1], layers[n][lyr + 1].depth)
Persand(n, lyr) == LayerFrac(n, lyr, 0)

\* what a call leaves: whether it returned (ok), the value returned, the
\* node's tau and transport rates, and the critical stresses it used
TransOut(ok, ret, t, q, taucs, taucg) ==
  [ok |-> ok, ret |-> ret, tau |-> t, q |-> q, taucs |-> taucs, taucg |-> taucg]

\* tSedTransPwrLaw::TransCapacity, both shapes
PwrLawOutcome(n, shape, lyr, weight, q) ==
  IF shape = "whole"
  THEN LET o == TransCapacityOutcome(n)
       IN TransOut(o.ok, VRat(o.ret), o.tau,
                   IF o.ok THEN QSetTotal(q, VRat(o.ret)) ELSE q, RZero, RZero)
  ELSE LET o == TransCapacityLayerOutcome(n, lyr, weight,
                                          [j \in 1..Len(q.m) |-> q.m[j].r])
       IN TransOut(o.ok, VRat(o.ret), o.tau,
                   IF o.ok
                   THEN [s |-> VRat(o.ret),
                         m |-> [j \in 1..Len(q.m) |-> VRat(o.qsm[j])]]
                   ELSE q,
                   RZero, RZero)

\* tSedTransPwrLawMulti::TransCapacity( tLNode *, int, double ): the sizes
\* from k on, the capacity summed so far
RECURSIVE PwrLawMultiSizes(_, _, _, _, _, _, _)
PwrLawMultiSizes(n, lyr, weight, t, d50, k, acc) ==
  IF k >= Len(sedTrans.mdGrndiam) THEN acc
  ELSE LET ratio == RDiv(sedTrans.mdGrndiam[k + 1], d50)
           hide == RPow(ratio, sedTrans.mdHidingexp)
           tauc == RDiv(sedTrans.mdTauc[k + 1], hide)      \* pow( ratio, -hidingexp )
           tauex == RSub(t, tauc)
           cap == RMul(RMul(RMul(RMul(LayerFrac(n, lyr, k), weight), sedTrans.kf),
                            hydro[n].W),
                       RPow(IF RPos(tauex) THEN tauex ELSE RZero, sedTrans.pf))
       IN PwrLawMultiSizes(n, lyr, weight, t, d50, k + 1,
            [total |-> RAdd(acc.total, cap), q |-> QAddSize(acc.q, k, VRat(cap))])

PwrLawMultiOutcome(n, shape, lyr, weight, q) ==
  IF shape = "whole" THEN TransOut(TRUE, VZero, tau[n], q, RZero, RZero)   \* return 0.0
  ELSE IF RNegative(slope[n]) THEN TransOut(FALSE, VZero, tau[n], q, RZero, RZero)
  ELSE LET d50 == SeqSum([i \in 1..Len(sedTrans.mdGrndiam) |->
                            RMul(LayerFrac(n, lyr, i - 1), sedTrans.mdGrndiam[i])])
           slp == IF hydro[n].flood THEN RZero ELSE slope[n]
           t == RMul(sedTrans.kt,
                     RMul(RPow(RDiv(hydro[n].Q, hydro[n].W), sedTrans.mf),
                          RPow(slp, sedTrans.nf)))
           a == PwrLawMultiSizes(n, lyr, weight, t, d50, 0, [total |-> RZero, q |-> q])
       IN TransOut(TRUE, VRat(a.total), t, QSetTotal(a.q, VRat(a.total)), RZero, RZero)

\* shear stress of the whole-node shape of the Wilcock law:
\* taudim * pow( rough * Q * YEARPERSEC / W, 0.6 ) * pow( slope, 0.7 )
WilcockTauWhole(n) ==
  RMul(sedTrans.taudim,
       RMul(PowFrac(RDiv(RMul(RMul(hydro[n].rough, hydro[n].Q), kYearPerSec),
                         hydro[n].W), 3, 5),
            PowFrac(slope[n], 7, 10)))

\* and of the other three shapes:
\* taudim * pow( 0.03, 0.6 ) * pow( Q / SECPERYEAR, 0.3 ) * pow( slope, 0.7 ),
\* the first two powers taken together as pow( 0.0009 * Q / SECPERYEAR, 0.3 )
WilcockTauLayer(n) ==
  RMul(sedTrans.taudim,
       RMul(PowFrac(RMul(kRoughSq, RMul(hydro[n].Q, kPerSecPerYear)), 3, 10),
            PowFrac(slope[n], 7, 10)))

\* (mutant) a negative slope leaves the rates of the node as they were
NegSlopeRatesKept(q, ng) == q

\* if( slope < 0 ): setQs( 0, 0 ); [ if( numg == 2 ) ] setQs( 1, 0 ); setQs( 0 )
NegSlopeRates(q, ng) ==
  QSetTotal(IF ng = 2 THEN QSetSize(QSetSize(q, 0, VZero), 1, VZero)
            ELSE QSetSize(q, 0, VZero),
            VZero)

\* tSedTransWilcock::TransCapacity( tLNode * )
WilcockWhole(n, q) ==
  LET persand == Persand(n, 0)
      factor == RDiv(layers[n][1].depth, net.maxregdep)
      t == WilcockTauWhole(n)
      tcs == SandTaucrit(persand)
      tcg == GravelTaucrit(persand)
      width == RMul(factor, hydro[n].W)
      q1 == QSetSize(q, 0,
              IF RGt(t, tcs) THEN VTerm(RMul(width, persand), "WilcockSand", <<t, tcs>>)
              ELSE VZero)
      q2 == QSetSize(q1, 1,
              IF RGt(t, tcg)
              THEN VTerm(RMul(width, RSub(R(1), persand)), "WilcockGravel", <<t, tcg>>)
              ELSE VZero)
      q3 == QSetTotal(q2, VAdd(q2.m[1], q2.m[2]))
  IN IF RNegative(slope[n])
     THEN TransOut(TRUE, VZero, tau[n], NegSlopeRates(q, 2), RZero, RZero)
     ELSE TransOut(TRUE, q3.s, tau[n], q3, tcs, tcg)

\* tSedTransWilcock::TransCapacity( tLNode *, int, double )
WilcockLayer(n, lyr, weight, q) ==
  LET persand == Persand(n, lyr)
      ng == getNumg(n)
      t == WilcockTauLayer(n)
      tcs == SandTaucrit(persand)
      tcg == GravelTaucrit(persand)
      width == RMul(weight, hydro[n].W)
      qss == IF RGt(t, tcs) THEN VTerm(RMul(width, persand), "WilcockSand", <<t, tcs>>)
             ELSE VZero
      q1 == IF RGt(t, tcs) THEN QAddSize(q, 0, qss) ELSE q
      qsg == IF ng = 2 /\ RGt(t, tcg)
             THEN VTerm(RMul(width, RSub(R(1), persand)), "WilcockGravel", <<t, tcg>>)
             ELSE VZero
      q2 == IF ng = 2 /\ RGt(t, tcg) THEN QAddSize(q1, 1, qsg) ELSE q1
  IN IF ~RPos(layers[n][lyr + 1].depth)            \* assert( getLayerDepth(i)>0 )
     THEN TransOut(FALSE, VZero, tau[n], q, RZero, RZero)
     ELSE IF RNegative(slope[n])
     THEN TransOut(TRUE, VZero, tau[n], NegSlopeRates(q, ng), RZero, RZero)
     ELSE TransOut(TRUE, VAdd(qsg, qss), tau[n], q2, tcs, IF ng = 2 THEN tcg ELSE RZero)

\* tSedTransMineTailings::TransCapacity( tLNode * )
MineTailingsWhole(n, q) ==
  LET persand == Persand(n, 0)
      t == WilcockTauLayer(n)
      tcs == SandTaucrit(persand)
      tcg == GravelTaucrit(persand)
      a == <<hydro[n].Q, slope[n]>>
      q1 == QSetSize(q, 0,
              IF RGt(t, tcs)
              THEN VTerm(RMul(persand, RSub(t, tcs)), "MineTailings", a) ELSE VZero)
      q2 == QSetSize(q1, 1,
              IF RGt(t, tcg)
              THEN VTerm(RMul(RSub(R(1), persand), RSub(t, tcg)), "MineTailings", a)
              ELSE VZero)
      q3 == QSetTotal(q2, VAdd(q2.m[1], q2.m[2]))
  IN IF RNegative(slope[n])
     THEN TransOut(TRUE, VZero, tau[n], NegSlopeRates(q, 2), RZero, RZero)
     ELSE TransOut(TRUE, q3.s, tau[n], q3, tcs, tcg)

\* tSedTransMineTailings::TransCapacity( tLNode *, int, double )
MineTailingsLayer(n, lyr, weight, q) ==
  LET persand == Persand(n, lyr)
      ng == getNumg(n)
      t == WilcockTauLayer(n)
      tcs == SandTaucrit(persand)
      tcg == GravelTaucrit(persand)
      a == <<hydro[n].Q, slope[n]>>
      qss == IF RGt(t, tcs)
             THEN VTerm(RMul(RMul(weight, persand), RSub(t, tcs)), "MineTailings", a)
             ELSE VZero
      q1 == IF RGt(t, tcs) THEN QAddSize(q, 0, qss) ELSE q
      qsg == IF ng = 2 /\ RGt(t, tcg)
             THEN VTerm(RMul(RMul(weight, RSub(R(1), persand)), RSub(t, tcg)),
                        "MineTailings", a)
             ELSE VZero
      q2 == IF ng = 2 /\ RGt(t, tcg) THEN QAddSize(q1, 1, qsg) ELSE q1
  IN IF ~RPos(layers[n][lyr + 1].depth)            \* assert( getLayerDepth(i)>0 )
     THEN TransOut(FALSE, VZero, tau[n], q, RZero, RZero)
     ELSE IF RNegative(slope[n])
     THEN TransOut(TRUE, VZero, tau[n], NegSlopeRates(q, ng), RZero, RZero)
     ELSE TransOut(TRUE, VAdd(qsg, qss), tau[n], q2, tcs, IF ng = 2 THEN tcg ELSE RZero)

\* sedTrans.TransCapacity( ... ): the law configured, shape "whole" (node) or
\* "weighted" (node, layer, weight)
TransLawOutcome(n, shape, lyr, weight, q) ==
  CASE sedTrans.kind = "PwrLaw" -> PwrLawOutcome(n, shape, lyr, weight, q)
    [] sedTrans.kind = "PwrLawMulti" -> PwrLawMultiOutcome(n, shape, lyr, weight, q)
    [] sedTrans.kind = "Wilcock" ->
         IF shape = "whole" THEN WilcockWhole(n, q) ELSE WilcockLayer(n, lyr, weight, q)
    [] sedTrans.kind = "MineTailings" ->
         IF shape = "whole" THEN MineTailingsWhole(n, q)
         ELSE MineTailingsLayer(n, lyr, weight, q)

\* the most calls made on the law in one behaviour
MaxTransCalls == 2

NoTransCall ==
  [shape |-> "none", node |-> 0, lyr |-> 0, weight |-> RZero, ok |-> TRUE,
   ret |-> VZero, pre |-> [s |-> VZero, m |-> <<>>], preTau |-> RZero,
   taucs |-> RZero, taucg |-> RZero, count |-> 0]

\* a transport-law call made directly on node n
CallTrans(n, shape, lyr, weight) ==
  /\ lawState = "ok" /\ lawCall.count < MaxTransCalls
  /\ \E q \in {[s |-> Qs[n], m |-> Qsm[n]]} :
     \E o \in {TransLawOutcome(n, shape, lyr, weight, q)} :
       /\ tau' = [tau EXCEPT ![n] = o.tau]
       /\ Qs' = [Qs EXCEPT ![n] = o.q.s]
       /\ Qsm' = [Qsm EXCEPT ![n] = o.q.m]
       /\ lawState' = IF o.ok THEN "ok" ELSE "aborted"
       /\ lawCall' = [shape |-> shape, node |-> n, lyr |-> lyr, weight |-> weight,
                      ok |-> o.ok, ret |-> o.ret, pre |-> q, preTau |-> tau[n],
                      taucs |-> o.taucs, taucg |-> o.taucg,
                      count |-> lawCall.count + 1]
  /\ UNCHANGED <<z, eqVars, hydro, slope, layers, DrDt, bedErode, netVars, DzDt,
                 Qsin, Qsinm, alluv, eroVars>>

\* TransCapacity( tLNode * )
TransCapacityWhole == \E n \in Nodes : CallTrans(n, "whole", 0, R(1))
\* TransCapacity( tLNode *, int, double )
TransCapacityWeighted ==
  \E n \in Nodes, lw \in {<<0, R(1)>>, <<1, <<1, 2>>>>} :
    CallTrans(n, "weighted", lw[1], lw[2])

\* the laws examined
PwrLawParams ==
  {[kf |-> R(1), kt |-> R(1), mf |-> 1, nf |-> 1, pf |-> 1],
   [kf |-> R(2), kt |-> R(1), mf |-> 1, nf |-> 0, pf |-> 1]}
\* diameters for which mdTauc is 1 and 10, and for which the reference
\* stresses of the Wilcock laws are 0.8531 * refs = 1/1000 and
\* 0.8531 * refg = 1/20
MultiDiams == << <<400, 291357>>, <<4000, 291357>> >>
WilcockGrades == << <<200, 281523>>, <<10000, 281523>> >>
TransLaws ==
  {[kind |-> "PwrLaw", kf |-> p.kf, kt |-> p.kt, mf |-> p.mf, nf |-> p.nf,
    pf |-> p.pf, tauc |-> R(3)] : p \in PwrLawParams}
  \cup {PwrLawMultiLaw(p, MultiDiams, h) : p \in PwrLawParams, h \in {0, 1}}
  \cup {WilcockLaw(k, WilcockGrades) : k \in {"Wilcock", "MineTailings"}}

\* node states the laws may be handed.  A discharge of 35040 (in units of
\* 1e6 per year) with rough / W = 625/694449 makes both hydraulic terms 1;
\* a slope of 1/1024 has pow( slope, 0.7 ) = 1/128.
TransNodeStates ==
  [Q : {RZero, R(35040)}, W : {R(1)}, rough : {<<625, 694449>>}, flood : BOOLEAN,
   tauc : {RZero}, drarea : {R(1)}]
TransSlopes == {<<-1, 1024>>, RZero, <<1, 1024>>, R(1)}
SandFractions == {RZero, <<1, 20>>, <<1, 10>>, <<1, 4>>, <<2, 5>>, <<1, 2>>, R(1)}

\* a stack of two layers of two sizes, the surface layer with the given sand
\* fraction
TransStack(persand) ==
  << [depth |-> R(1), erody |-> R(1), sed |-> 1,
      dgrade |-> <<persand, RSub(R(1), persand)>>],
     [depth |-> R(2), erody |-> R(1), sed |-> 0, dgrade |-> <<<<1, 2>>, <<3, 2>>>>] >>

InitTrans ==
  /\ EqIdle
  /\ z = [n \in AllNodes |-> RZero]
  /\ \E h \in TransNodeStates :
       hydro = [n \in AllNodes |-> IF n = 1 THEN h ELSE [h EXCEPT !.flood = FALSE]]
  /\ \E s \in TransSlopes :
       slope = [n \in AllNodes |-> IF n = 1 THEN s ELSE <<1, 1024>>]
  /\ \E p \in SandFractions : layers = [n \in AllNodes |-> TransStack(p)]
  /\ tau = [n \in AllNodes |-> R(7)]
  /\ DrDt = [n \in AllNodes |-> RZero]
  /\ bedErode = [kt |-> R(1), mb |-> 1, nb |-> 1, pb |-> 1]
  /\ lawState = "ok"
  /\ lawCall = NoTransCall
  /\ net = [NoNet EXCEPT !.maxregdep = R(2)]
  /\ order = <<1, 2>>
  /\ DzDt = [n \in AllNodes |-> RZero]
  /\ Qs = [n \in AllNodes |-> VRat(R(7))]
  /\ Qsm = [n \in AllNodes |-> <<VRat(R(3)), VRat(R(4))>>]
  /\ Qsin = [n \in AllNodes |-> RZero]
  /\ Qsinm = [n \in AllNodes |-> <<RZero, RZero>>]
  /\ alluv = [n \in AllNodes |-> RZero]
  /\ sedTrans \in TransLaws
  /\ run = NoRun
  /\ sub = NoSub

NextTrans ==
  \/ TransCapacityWhole
  \/ TransCapacityWeighted

SpecTrans == InitTrans /\ [][NextTrans]_vars

---------------------------------------------------------------------------
(* Claims about the transport laws.                                         *)

TransCalled == lawCall.shape # "none"
TransNode == lawCall.node
\* the call neither set nor added anything but zero to the node's rates
NothingAdded ==
  /\ Qs[TransNode] \in {VZero, lawCall.pre.s}
  /\ \A j \in 1..Len(Qsm[TransNode]) : Qsm[TransNode][j] \in {VZero, lawCall.pre.m[j]}

\* C11: whatever the transport law and the call shape, a call on a flooded
\* node returns (no fatal abort), returns 0, and adds nothing to the node's
\* per-size and scalar Qs.
C11_FloodedYieldsZero ==
  (TransCalled /\ hydro[TransNode].flood) =>
    (lawCall.ok /\ lawCall.ret = VZero /\ NothingAdded)

WilcockKind == sedTrans.kind \in {"Wilcock", "MineTailings"}

\* C12: Wilcock and mine-tailings laws, both call shapes: on a node whose
\* slope is negative the call returns (no abort), returns 0, and leaves the
\* node's capacity of every size and its total capacity Qs equal to 0.
C12_NegSlopeZeroes ==
  (TransCalled /\ WilcockKind /\ RNegative(slope[TransNode])) =>
    /\ lawCall.ok
    /\ lawCall.ret = VZero
    /\ Qs[TransNode] = VZero
    /\ \A j \in 1..Len(Qsm[TransNode]) : Qsm[TransNode][j] = VZero

\* a call on a negative slope has zeroed rates that were not zero
C12_Witness ==
  /\ TransCalled /\ WilcockKind /\ RNegative(slope[TransNode])
  /\ lawCall.shape = "weighted" /\ lawCall.ok
  /\ lawCall.pre.s # VZero /\ lawCall.pre.m[2] # VZero
  /\ Qs[TransNode] = VZero

\* the sand fraction the last call worked with
CallPersand == Persand(TransNode, lawCall.lyr)

\* C13: Wilcock and mine-tailings laws, both call shapes: the critical
\* shear stresses used are the low ones for a sand fraction below 0.10, the
\* high ones above 0.40, and the linear interpolation in between; the
\* interpolation meets the low values at 0.10 and the high values at 0.40.
C13_CriticalShearContinuous ==
  (TransCalled /\ WilcockKind /\ lawCall.ok /\ ~RNegative(slope[TransNode])) =>
    /\ RLt(CallPersand, kLowSand) =>
         (lawCall.taucs = sedTrans.lowtaucs /\ lawCall.taucg = sedTrans.lowtaucg)
    /\ RGt(CallPersand, kHighSand) =>
         (lawCall.taucs = sedTrans.hightaucs /\ lawCall.taucg = sedTrans.hightaucg)
    /\ (RGe(CallPersand, kLowSand) /\ RLe(CallPersand, kHighSand)) =>
         /\ lawCall.taucs = RAdd(RMul(sedTrans.sands, CallPersand), sedTrans.sandb)
         /\ lawCall.taucg = RAdd(RMul(sedTrans.gravs, CallPersand), sedTrans.gravb)
    /\ CallPersand = kLowSand =>
         (lawCall.taucs = sedTrans.lowtaucs /\ lawCall.taucg = sedTrans.lowtaucg)
    /\ CallPersand = kHighSand =>
         (lawCall.taucs = sedTrans.hightaucs /\ lawCall.taucg = sedTrans.hightaucg)

\* a call made at the upper end of the interpolation, on the mine-tailings
\* law, whose critical stresses are the high ones
C13_Witness ==
  /\ TransCalled /\ sedTrans.kind = "MineTailings" /\ lawCall.ok
  /\ ~RNegative(slope[TransNode])
  /\ CallPersand = kHighSand
  /\ lawCall.taucs = sedTrans.hightaucs /\ lawCall.taucs # sedTrans.lowtaucs

\* C14: whatever the transport law, the whole-node call writes the capacity
\* it computed into the node's scalar Qs and returns that value.
C14_WholeNodeSetsQs ==
  (TransCalled /\ lawCall.shape = "whole" /\ lawCall.ok) =>
    Qs[TransNode] = lawCall.ret

---------------------------------------------------------------------------
(* Claims about the unified algorithm, DetachErode.                         *)

Dried == run.variant = "DetachErode" /\ RLe(net.rainRate, net.infilt)

\* C15: an invocation of DetachErode with rainfall rate minus infiltration
\* <= 0 changes no node's elevation, layer stack, Qs, Qsin, DzDt or DrDt,
\* takes no sub-step and never enters the reset, rate or apply pass (the
\* capacity laws are called in the rate and apply passes only): the step it
\* takes ends the invocation.
C15_NoRunoffNoErosion ==
  [][Dried =>
       /\ UNCHANGED <<z, layers, Qs, Qsm, Qsin, Qsinm, DzDt, DrDt, tau, lawState>>
       /\ run'.pc = "done" /\ run'.nsub = 0 /\ run'.elapsed = RZero]_vars

\* the invocation without runoff has returned, the influx left by an
\* earlier call still on the nodes
C15_Witness ==
  /\ Dried /\ run.pc = "done" /\ run.nsub = 0
  /\ net.rainRate = net.infilt
  /\ \A n \in Nodes : Qsin[n] = R(5) /\ z[n] # RZero


\* the nodes whose apply pass of the current sub-step of DetachErode is done
AppliedNodes ==
  IF run.variant = "DetachErode" /\ run.pc \in {"apply", "time"}
  THEN {n \in Nodes : sub[n].done} ELSE {}
\* the change of elevation realized at node n, all sizes
Realized(n) == SeqSum(sub[n].ret)

---------------------------------------------------------------------------
(* Claims about the order in which the nodes are visited.                   *)

\* the active nodes that drain directly into node n
Contributors(n) == {m \in Nodes : net.dnbr[m] = n}

RECURSIVE RSetSum(_, _)
RSetSum(f, S) ==
  IF S = {} THEN RZero
  ELSE LET m == CHOOSE x \in S : TRUE IN RAdd(f[m], RSetSum(f, S \ {m}))

\* the influx a node starts a rate pass with, and an apply pass with
RateBase(n) ==
  IF run.variant = "DetachErode" THEN SeqSum(InletQsinm(n)) ELSE RZero
ApplyBase(n) ==
  CASE run.variant = "DetachErode" -> SeqSum(InletQsinm(n))
    [] run.variant = "StreamErode" -> IF n = net.inlet THEN net.inSedLoad ELSE RZero
    [] OTHER -> RZero

\* the nodes visited before the one the pass is at
Visited == {order[k] : k \in 1..(run.i - 1)}

\* what holds of a pass that has come to a node: every active node draining
\* directly into it has been visited in that pass, and the node's Qsin holds
\* what each of them has sent on (rate pass: its influx less its rate times
\* its area; apply pass: the flux it passed on)
ContributorsFirst ==
  /\ run.pc = "rate" =>
       /\ Contributors(order[run.i]) \subseteq Visited
       /\ Qsin[order[run.i]] =
            RAdd(RateBase(order[run.i]),
                 RSetSum([m \in Nodes |-> OutFlux(Qsin[m], DzDt[m], VArea(m))],
                         Contributors(order[run.i])))
  /\ run.pc = "apply" =>
       /\ Contributors(order[run.i]) \subseteq Visited
       /\ \A m \in Contributors(order[run.i]) : sub[m].done
       /\ Qsin[order[run.i]] =
            RAdd(ApplyBase(order[run.i]),
                 RSetSum([m \in Nodes |-> SeqSum(sub[m].sent)],
                         Contributors(order[run.i])))

\* C20 as stated: every invocation of StreamErode, StreamErodeMulti and
\* DetachErode requests the sort exactly once, before the first sub-step and
\* never inside the loop, and every pass finds the contributors' flux
\* already in the node's Qsin.
C20_AsClaimed ==
  (run.variant \in SedimentVariants /\ run.pc \notin {"idle", "aborted"}) =>
    (run.sorts = 1 /\ ContributorsFirst)

\* C20: StreamErode, StreamErodeMulti, and DetachErode when rainfall exceeds
\* infiltration, request the sort once, before the first sub-step, and not
\* again inside the loop; DetachErode without runoff returns before
\* requesting it; and when a pass of a sub-step comes to a node, every
\* active node that drains directly into it has already added its flux for
\* that pass to the node's Qsin.
C20_SortedOnceWhenRun ==
  (run.variant \in SedimentVariants /\ run.pc \notin {"idle", "aborted"}) =>
    /\ run.sorts =
         IF run.variant = "DetachErode" /\ ~RPos(RSub(net.rainRate, net.infilt))
         THEN 0 ELSE 1
    /\ ContributorsFirst

\* the apply pass of a second sub-step has come to a node that another node
\* drains into and has sent a flux to
C20_Witness ==
  /\ run.variant \in SedimentVariants /\ run.pc = "apply" /\ run.nsub >= 1
  /\ run.sorts = 1
  /\ \E m \in Contributors(order[run.i]) :
       sub[m].done /\ RPos(SeqSum(sub[m].sent))

---------------------------------------------------------------------------
(* tErosion::Diffuse( rt, noDepoFlag ): hillslope diffusion.  The network   *)
(* record holds the diffusivity kd, the flag and the list of active edges   *)
(* (directed, an edge followed by its complement); run.dtg is the time rt   *)
(* left, in the source's time units.                                        *)

kVerySmall == <<1, 1000000>>
\* (mutant) the whole of the Courant time
kEpsWhole == R(1)
kEpsOver2 == <<1, 10>>

\* the Courant condition over the active edges from k on
RECURSIVE CourantDtMax(_, _)
CourantDtMax(k, dtmax) ==
  IF k > Len(net.edges) THEN dtmax
  ELSE LET ce == net.edges[k]
           denom == RMul(net.kd, ce.vlen)
       IN CourantDtMax(k + 1,
            IF RGt(denom, kVerySmall) /\ RLt(RMul(kEpsOver2, RDiv(ce.len, denom)), dtmax)
            THEN RMul(kEpsOver2, RDiv(ce.len, denom)) ELSE dtmax)

\* tEdge::CalcSlope
CalcSlope(ce) == RDiv(RSub(z[ce.o], z[ce.d]), ce.len)

NewDiffuseSub ==
  [n \in Nodes |-> [done |-> FALSE, acc |-> RZero, handed |-> RZero, z0 |-> z[n]]]

\* dtmax = rt, lowered by the Courant condition of each edge
StartDiffuse ==
  /\ run.pc = "idle" /\ run.variant = "Diffuse"
  /\ run' = [NewRun("Diffuse", run.dtg0, "reset") EXCEPT
               !.dtmax = CourantDtMax(1, run.dtg0)]
  /\ UNCHANGED <<z, eqVars, nodeVars, lawVars, netVars, sedVars, sedTrans, sub>>

\* cn->setQsin( 0 ) for each active node
ResetDiffuse ==
  /\ run.variant = "Diffuse" /\ run.pc = "reset"
  /\ Qsin' = [n \in AllNodes |-> IF n \in Nodes THEN RZero ELSE Qsin[n]]
  /\ sub' = NewDiffuseSub
  /\ run' = [run EXCEPT !.pc = IF Len(net.edges) = 0 THEN "apply" ELSE "edges",
                        !.i = 1]
  /\ UNCHANGED <<z, eqVars, nodeVars, lawVars, netVars, DzDt, Qs, Qsm, Qsinm, alluv,
                 sedTrans>>

\* (mutant) on to the complementary edge
AfterEdgeEvery(i) == i + 1
\* ce = edgIter.NextP() in the body and in the loop header: the
\* complementary edge is skipped
AfterEdge(i) == i + 2

\* the volume sent along edge run.i; its complement is skipped
EdgeDiffuse ==
  /\ run.variant = "Diffuse" /\ run.pc = "edges"
  /\ \E ce \in {net.edges[run.i]} :
     \E volout \in {RMul(RMul(RMul(net.kd, CalcSlope(ce)), ce.vlen), run.dtmax)} :
       Qsin' = [Qsin EXCEPT ![ce.o] = RSub(@, volout), ![ce.d] = RAdd(@, volout)]
  /\ run' = IF AfterEdge(run.i) > Len(net.edges)
            THEN [run EXCEPT !.pc = "apply", !.i = 1]
            ELSE [run EXCEPT !.i = AfterEdge(@)]
  /\ UNCHANGED <<z, eqVars, nodeVars, lawVars, netVars, DzDt, Qs, Qsm, Qsinm, alluv,
                 sedTrans, sub>>

\* (mutant) deposition whatever the flag
NetFluxUnclamped(n) == Qsin[n]
\* if( noDepoFlag ) if( cn->getQsin() > 0.0 ) cn->setQsin( 0.0 )
NetFlux(n) == IF net.noDepoFlag # 0 /\ RPos(Qsin[n]) THEN RZero ELSE Qsin[n]

\* cn->EroDep( cn->getQsin() / cn->getVArea() ) for the active node run.i
ApplyDiffuse ==
  /\ run.variant = "Diffuse" /\ run.pc = "apply"
  /\ \E cn \in {run.i} :
     \E q \in {NetFlux(cn)} :
       /\ Qsin' = [Qsin EXCEPT ![cn] = q]
       /\ z' = [z EXCEPT ![cn] = RAdd(@, RDiv(q, VArea(cn)))]
       /\ sub' = [sub EXCEPT ![cn] = [done |-> TRUE, acc |-> Qsin[cn],
                                      handed |-> RDiv(q, VArea(cn)), z0 |-> z[cn]]]
  /\ run' = IF run.i + 1 \in Nodes THEN [run EXCEPT !.i = @ + 1]
            ELSE [run EXCEPT !.pc = "time"]
  /\ UNCHANGED <<eqVars, nodeVars, lawVars, netVars, DzDt, Qs, Qsm, Qsinm, alluv,
                 sedTrans>>

\* rt -= dtmax; if( dtmax>rt ) dtmax=rt; } while( rt>0.0 )
TimeDiffuse ==
  /\ run.variant = "Diffuse" /\ run.pc = "time"
  /\ \E rt \in {RSub(run.dtg, run.dtmax)} :
       run' = [run EXCEPT !.dtg = rt,
                          !.dtmax = IF RGt(@, rt) THEN rt ELSE @,
                          !.elapsed = RAdd(@, run.dtmax),
                          !.nsub = Min(@ + 1, MaxSubCount),
                          !.pc = IF RPos(rt) THEN "reset" ELSE "done"]
  /\ UNCHANGED <<z, eqVars, nodeVars, lawVars, netVars, sedVars, sedTrans, sub>>

\* the active edges of a mesh of three nodes, each with its length and the
\* length of the Voronoi face it crosses: all faces alike, and the face
\* between node 1 and the outlet of zero length
DiffuseEdge(o, d, len, vlen) == [o |-> o, d |-> d, len |-> len, vlen |-> vlen]
DiffuseMesh(v) ==
  << DiffuseEdge(1, 2, R(1), R(1)), DiffuseEdge(2, 1, R(1), R(1)),
     DiffuseEdge(2, 0, R(2), R(1)), DiffuseEdge(0, 2, R(2), R(1)),
     DiffuseEdge(0, 1, R(1), v), DiffuseEdge(1, 0, R(1), v) >>
DiffuseElevs ==
  {<<R(1), R(3)>>, <<R(3), R(1)>>, <<R(2), R(2)>>, <<R(-1), R(1)>>}
DiffuseTimes == {<<1, 20>>, <<1, 4>>}

InitDiffuse ==
  /\ EqIdle /\ NodesIdle /\ LawIdle
  /\ \E e \in DiffuseElevs :
       z = [n \in AllNodes |-> IF n = OutletNode THEN RZero ELSE e[n]]
  /\ \E v \in {RZero, R(1)}, flag \in {0, 1} :
       net = [kd |-> R(1), noDepoFlag |-> flag, edges |-> DiffuseMesh(v)]
  /\ order = <<1, 2>>
  /\ DzDt = [n \in AllNodes |-> RZero]
  /\ Qs = [n \in AllNodes |-> RZero]
  /\ Qsin = [n \in AllNodes |-> IF n \in Nodes THEN R(5) ELSE RZero]
  /\ Qsm = [n \in AllNodes |-> <<RZero>>]
  /\ Qsinm = [n \in AllNodes |-> <<RZero>>]
  /\ alluv = [n \in AllNodes |-> RZero]
  /\ sedTrans = [kf |-> R(1), kt |-> R(1), mf |-> 1, nf |-> 1, pf |-> 1, tauc |-> RZero]
  /\ \E rt \in DiffuseTimes : run = [NoRun EXCEPT !.variant = "Diffuse", !.dtg0 = rt]
  /\ sub = NoSub

NextDiffuse ==
  \/ StartDiffuse \/ ResetDiffuse \/ EdgeDiffuse \/ ApplyDiffuse \/ TimeDiffuse

SpecDiffuse == InitDiffuse /\ [][NextDiffuse]_vars

\* C16: hillslope diffusion with noDepoFlag set: no step of the invocation
\* raises the elevation of any node, and the change of elevation applied to
\* an active node in a sub-step is the node's accumulated flux over its
\* area when that is negative, and 0 otherwise.
C16_NoDeposition ==
  [][(run.variant = "Diffuse" /\ net.noDepoFlag # 0) =>
       /\ \A n \in AllNodes : RLe(z'[n], z[n])
       /\ \A n \in Nodes :
            (sub'[n].done /\ ~sub[n].done) =>
              /\ ~RPos(sub'[n].handed)
              /\ z'[n] = RAdd(z[n], sub'[n].handed)
              /\ RPos(Qsin[n]) => (sub'[n].handed = RZero /\ Qsin'[n] = RZero)
              /\ ~RPos(Qsin[n]) => sub'[n].handed = RDiv(Qsin[n], VArea(n))]_vars

\* a sub-step has been completed in which a node that had gathered a
\* positive flux was left where it was, and a node was lowered
C16_Witness ==
  /\ run.variant = "Diffuse" /\ net.noDepoFlag # 0 /\ run.nsub >= 1
  /\ \E n \in Nodes :
       /\ sub[n].done /\ RPos(sub[n].acc)
       /\ sub[n].handed = RZero /\ z[n] = sub[n].z0
  /\ \E n \in Nodes : sub[n].done /\ RNegative(sub[n].handed)

---------------------------------------------------------------------------
(* tErosion::DensifyMesh( time ).  order is the list of active nodes; the   *)
(* network record holds the threshold mdMeshAdaptMaxFlux, the time handed   *)
(* in, the Voronoi areas, and the nodes the mesh has inserted (extra), each *)
(* with its area and its rate.  sub keeps, for every node, what the call    *)
(* saw and asked of the mesh.                                               *)

\* the most nodes inserted in one behaviour
MaxNewNodes == 2

NodeArea(id) == IF id \in Nodes THEN net.varea[id] ELSE net.extra[id - 2].varea
NodeRate(id) == IF id \in Nodes THEN DzDt[id] ELSE net.extra[id - 2].dzdt

\* (mutant) the signed flux
LocalFluxSigned(id) == RMul(NodeArea(id), NodeRate(id))
\* fabs( cn->getVArea() * cn->getDzDt() )
LocalFlux(id) == RAbs(RMul(NodeArea(id), NodeRate(id)))

\* What tMesh::AddNodesAround( cn, time ) may leave: new nodes, which carry
\* the rate of cn, at the back of the active list, and any of the Voronoi
\* areas made smaller by the re-triangulation.  Here at most one node is
\* inserted per request, and none once MaxNewNodes have been.
AreasAfter ==
  {a \in [Nodes -> {R(1), R(2), <<1, 2>>}] :
     \A n \in Nodes : a[n] = net.varea[n] \/ a[n] = RDiv(net.varea[n], R(2))}
AddNodesAround(cn) ==
  \E a \in AreasAfter, k \in {0, 1}, v \in {<<1, 2>>, R(2)} :
    IF k = 1 /\ Len(net.extra) < MaxNewNodes
    THEN /\ net' = [net EXCEPT !.varea = a,
                               !.extra = Append(@, [varea |-> v, dzdt |-> NodeRate(cn)])]
         /\ order' = Append(order, Len(net.extra) + 3)
    ELSE /\ net' = [net EXCEPT !.varea = a]
         /\ order' = order

StartDensifyMesh ==
  /\ run.variant = "DensifyMesh" /\ run.pc = "idle"
  /\ run' = [run EXCEPT !.pc = IF Len(order) = 0 THEN "done" ELSE "check", !.i = 1]
  /\ UNCHANGED <<z, eqVars, nodeVars, lawVars, netVars, sedVars, sedTrans, sub>>

\* the body of the loop over the active nodes, for the node at run.i
CheckNode ==
  /\ run.variant = "DensifyMesh" /\ run.pc = "check"
  /\ \E cn \in {order[run.i]} :
       IF RGt(LocalFlux(cn), net.mdMeshAdaptMaxFlux)
       THEN /\ AddNodesAround(cn)
            /\ sub' = [sub EXCEPT ![cn] = [done |-> TRUE, area |-> NodeArea(cn),
                                           asked |-> @.asked + 1, time |-> net.time]]
       ELSE /\ UNCHANGED <<net, order>>
            /\ sub' = [sub EXCEPT ![cn] = [@ EXCEPT !.done = TRUE,
                                                    !.area = NodeArea(cn)]]
  /\ run' = IF run.i + 1 > Len(order') THEN [run EXCEPT !.pc = "done"]
            ELSE [run EXCEPT !.i = @ + 1]
  /\ UNCHANGED <<z, eqVars, nodeVars, lawVars, sedVars, sedTrans>>

DensifyRates == {R(-3), R(-1), RZero, <<1, 2>>, R(2)}

InitDensify ==
  /\ EqIdle /\ NodesIdle /\ LawIdle
  /\ z = [n \in AllNodes |-> R(n)]
  /\ \E thr \in {R(1), R(2)} :
       net = [mdMeshAdaptMaxFlux |-> thr, time |-> 7,
              varea |-> [n \in Nodes |-> VArea(n)], extra |-> <<>>]
  /\ order \in {<<1, 2>>, <<2, 1>>}
  /\ DzDt \in [AllNodes -> DensifyRates]
  /\ DzDt[OutletNode] = RZero
  /\ Qs = [n \in AllNodes |-> R(3)]
  /\ Qsin = [n \in AllNodes |-> R(5)]
  /\ Qsm = [n \in AllNodes |-> <<R(3)>>]
  /\ Qsinm = [n \in AllNodes |-> <<R(5)>>]
  /\ alluv = [n \in AllNodes |-> RZero]
  /\ sedTrans = [kf |-> R(1), kt |-> R(1), mf |-> 1, nf |-> 1, pf |-> 1, tauc |-> RZero]
  /\ run = [NoRun EXCEPT !.variant = "DensifyMesh"]
  /\ sub = [id \in 1..(2 + MaxNewNodes) |->
              [done |-> FALSE, area |-> RZero, asked |-> 0, time |-> 0]]

NextDensify == StartDensifyMesh \/ CheckNode

SpecDensify == InitDensify /\ [][NextDensify]_vars

\* the nodes of the list the call has checked
Checked == {id \in DOMAIN sub : sub[id].done}

\* C17: during one call of DensifyMesh node insertion is asked for an active
\* node, with the time given, exactly when |Voronoi area x DzDt| of the
\* node, as the call finds them, is strictly greater than the threshold, and
\* once; a node not yet reached has not been asked for; the call ends with
\* every node of the list checked; and no step of the call changes a node's
\* elevation, rate or flux accumulators.
C17_DensifyWhereFluxExceeds ==
  /\ [](run.variant = "DensifyMesh" =>
          /\ \A id \in Checked :
               /\ sub[id].asked =
                    IF RGt(RAbs(RMul(sub[id].area, NodeRate(id))), net.mdMeshAdaptMaxFlux)
                    THEN 1 ELSE 0
               /\ sub[id].asked = 1 => sub[id].time = net.time
          /\ \A id \in (DOMAIN sub) \ Checked : sub[id].asked = 0
          /\ run.pc = "done" => Checked = {order[k] : k \in 1..Len(order)})
  /\ [][run.variant = "DensifyMesh" =>
          UNCHANGED <<z, DzDt, Qs, Qsin, Qsm, Qsinm, layers>>]_vars

\* the call has ended having asked for nodes around an eroding node, whose
\* flux is negative, and not around a node whose flux equals the threshold
C17_Witness ==
  /\ run.variant = "DensifyMesh" /\ run.pc = "done"
  /\ \E id \in Checked : sub[id].asked = 1 /\ RNegative(NodeRate(id))
  /\ \E id \in Checked :
       /\ sub[id].asked = 0
       /\ RAbs(RMul(sub[id].area, NodeRate(id))) = net.mdMeshAdaptMaxFlux

---------------------------------------------------------------------------
(* The detachment capacity as a function of discharge and slope: the law    *)
(* called on two nodes that differ in discharge and slope only.             *)

\* DetachCapacity, in the given shape, called on node 1 and then on node 2
DetachCapacityPair(shape, i, dt) ==
  /\ lawState = "ok" /\ lawCall.shape = "none"
  /\ \E o1 \in {DetachCapacityOutcome(1, shape, i, dt)},
        o2 \in {DetachCapacityOutcome(2, shape, i, dt)} :
       /\ tau' = [tau EXCEPT ![1] = o1.tau, ![2] = IF o1.ok THEN o2.tau ELSE @]
       /\ DrDt' = [DrDt EXCEPT ![1] = o1.DrDt, ![2] = IF o1.ok THEN o2.DrDt ELSE @]
       /\ lawState' = IF o1.ok /\ o2.ok THEN "ok" ELSE "aborted"
       /\ lawCall' = [shape |-> shape, lyr |-> i, dt |-> dt, ok |-> o1.ok /\ o2.ok,
                      ret |-> <<o1.ret, o2.ret>>]
  /\ UNCHANGED <<z, eqVars, hydro, slope, layers, bedErode, netVars, sedVars, eroVars>>

PairDepth == \E dt \in {R(1), R(3)} : DetachCapacityPair("depth", 0, dt)
PairRate == DetachCapacityPair("rate", 0, RZero)
PairLayer == \E i \in {0, 1} : DetachCapacityPair("layer", i, RZero)

\* discharges, slopes and exponents >= 0
MonoDischarges == {RZero, R(1), R(4)}
MonoSlopes == {RZero, <<1, 2>>, R(2)}
MonoParams ==
  [kt : {R(2)}, mb : {0, 1, 2}, nb : {0, 1, 2}, pb : {0, 1, 2}]

InitMono ==
  /\ EqIdle /\ EroIdle
  /\ z = [n \in AllNodes |-> RZero]
  /\ \E q \in [Nodes -> MonoDischarges], w \in {R(1), R(2)}, tc \in {RZero, R(3)} :
       hydro = [n \in AllNodes |->
                  [Q |-> IF n \in Nodes THEN q[n] ELSE R(1), W |-> w, flood |-> FALSE,
                   tauc |-> tc, drarea |-> R(1)]]
  /\ \E s \in [Nodes -> MonoSlopes] :
       slope = [n \in AllNodes |-> IF n \in Nodes THEN s[n] ELSE RZero]
  /\ layers = [n \in AllNodes |-> StackSedOverRock]
  /\ tau = [n \in AllNodes |-> R(7)]
  /\ DrDt = [n \in AllNodes |-> R(7)]
  /\ bedErode \in MonoParams
  /\ lawState = "ok"
  /\ lawCall = NoLawCall

NextMono == PairDepth \/ PairRate \/ PairLayer

SpecMono == InitMono /\ [][NextMono]_vars

PairCalled == lawCall.shape # "none" /\ lawCall.ok

\* C18: the detachment capacity of the power law does not decrease when the
\* discharge or the slope grows, the width, the erodibility, the critical
\* shear stress and the duration being the same and the node not flooded,
\* for exponents mb, nb, pb >= 0, in each of the three call shapes.
C18_CapacityMonotone ==
  (PairCalled /\ RLe(hydro[1].Q, hydro[2].Q) /\ RLe(slope[1], slope[2])) =>
    RLe(lawCall.ret[1], lawCall.ret[2])

\* the depth shape has answered more for the larger discharge on the same
\* slope, with a critical shear stress that the smaller discharge does not reach
C18_Witness ==
  /\ PairCalled /\ lawCall.shape = "depth"
  /\ RLt(hydro[1].Q, hydro[2].Q) /\ slope[1] = slope[2]
  /\ RPos(hydro[1].tauc)
  /\ lawCall.ret[1] = RZero /\ RPos(lawCall.ret[2])


---------------------------------------------------------------------------
(* Claims about what the integrators do around their sub-steps.             *)

\* C21: in every integrator variant, when a rate pass is at a node, about to
\* evaluate a capacity law, the invocation has asked the stream network to
\* recompute the channel geometry and the hydraulic geometry
\* (FindChanGeom, FindHydrGeom).
C21_GeometryBeforeCapacity ==
  (run.variant \in DetachLimVariants \cup SedimentVariants /\ run.pc = "rate") =>
    run.geoms >= 1

\* the uplift variant has chosen the step of a sub-step
UpliftStepChosen ==
  run.variant = "DetachLimUplift" /\ run.pc \in {"apply", "time"}

\* C22 as stated: the rate difference of a node's bound is (downstream rate
\* - node rate - uplift rate) when the downstream neighbour is not a boundary
\* node, and (downstream rate - node rate) when it is one.
C22_AsClaimed ==
  UpliftStepChosen =>
    \A n \in Nodes :
      sub[n].ratediff =
        IF net.dnbr[n] \in Nodes
        THEN RSub(RSub(DzDt[net.dnbr[n]], DzDt[n]), net.uplift)
        ELSE RSub(DzDt[net.dnbr[n]], DzDt[n])

\* C22: in ErodeDetachLim with uplift the rate difference of a node's bound
\* is (downstream rate - node rate) when the downstream neighbour is not a
\* boundary node, and (downstream rate - node rate - uplift rate) when the
\* downstream neighbour is a boundary node.
C22_UpliftOffAtBoundary ==
  UpliftStepChosen =>
    \A n \in Nodes :
      sub[n].ratediff =
        IF net.dnbr[n] \in Nodes
        THEN RSub(DzDt[net.dnbr[n]], DzDt[n])
        ELSE RSub(RSub(DzDt[net.dnbr[n]], DzDt[n]), net.uplift)

\* a step chosen under a nonzero uplift rate for a node that drains into an
\* active node and one that drains into the outlet
C22_Witness ==
  /\ UpliftStepChosen /\ RPos(net.uplift)
  /\ \E n, m \in Nodes : net.dnbr[n] \in Nodes /\ net.dnbr[m] \notin Nodes
                         /\ sub[m].ratediff # RSub(DzDt[net.dnbr[m]], DzDt[m])

\* the elevation a node had when the step of the sub-step was chosen
ZAtStep(n) == IF n \in Nodes THEN sub[n].z0 ELSE z[n]

\* the nodes that were converging on and higher than their downstream
\* neighbour when the step was chosen
Converging ==
  {n \in Nodes : RPos(sub[n].ratediff) /\ RGt(ZAtStep(n), ZAtStep(net.dnbr[n]))}

\* the bound of a converging node: 0.1 x elevation difference / rate difference
UpliftBound(n) ==
  RMul(RDiv(RSub(ZAtStep(n), ZAtStep(net.dnbr[n])), sub[n].ratediff), kFracUplift)

RECURSIVE RSetMin(_, _, _)
RSetMin(f, S, hi) ==
  IF S = {} THEN hi
  ELSE LET m == CHOOSE x \in S : TRUE IN RSetMin(f, S \ {m}, RMin(hi, f[m]))

\* C23: in every sub-step of ErodeDetachLim with uplift the chosen step is
\* max(dtmin, min(remaining time, least bound of the converging nodes)),
\* with dtmin = 0.0001 x the initial dtg, whatever the order of the nodes.
C23_StepIsClampedMin ==
  (run.variant = "DetachLimUplift" /\ run.pc = "apply") =>
    /\ run.dtmin = RMul(run.dtg0, <<1, 10000>>)
    /\ run.dtmax =
         RMax(run.dtmin,
              RSetMin([n \in Nodes |-> UpliftBound(n)], Converging, run.dtg))

\* C24: in ErodeDetachLim without uplift, an active node that was strictly
\* higher than its downstream neighbour before a sub-step is not lower than
\* that neighbour after the sub-step has been applied to all nodes.
C24_NoSlopeReversal ==
  (run.variant = "DetachLim" /\ run.pc = "time") =>
    \A n \in Nodes :
      RGt(ZAtStep(n), ZAtStep(net.dnbr[n])) => RGe(z[n], z[net.dnbr[n]])

\* the apply pass of a sub-step is about to begin
ApplyBegins ==
  /\ run.variant \in SedimentVariants /\ run.pc = "apply" /\ run.i = 1
  /\ \A n \in Nodes : ~sub[n].done

\* the variants that keep an influx for each grain size
MultiSizeVariants == {"StreamErodeMulti", "DetachErode"}

\* C25: when the apply pass of a sub-step of StreamErode, StreamErodeMulti
\* or DetachErode begins, each active node's Qsin (and, in the multi-size
\* variants, its Qsin of each size) holds 0, or the configured sediment
\* supply if the node is the inlet node.
C25_InfluxRebuilt ==
  ApplyBegins =>
    \A n \in Nodes :
      /\ Qsin[n] = IF n = net.inlet THEN net.inSedLoad ELSE RZero
      /\ run.variant \in MultiSizeVariants =>
           Qsinm[n] = IF n = net.inlet THEN net.insed ELSE ZeroSeq(getNumg(n))

\* the detachment capacity the law gives for a node as it stands
CapacityNow(n) == DetachCapacityOutcome(n, "rate", 0, RZero).ret

\* C26: in StreamErode, (a) once the rate pass is through, the rate of a
\* node on bedrock is not more erosional than its detachment capacity, and
\* (b) the erosion depth applied to a node on bedrock in a sub-step of
\* length dt does not exceed its alluvium thickness plus dt x the
\* detachment capacity of the node in that sub-step.
C26_BedrockLimits ==
  /\ []((run.variant = "StreamErode" /\ run.pc = "step") =>
          \A n \in Nodes : OnBedrock(n) => RGe(DzDt[n], RNeg(CapacityNow(n))))
  /\ [][(run.variant = "StreamErode" /\ run.pc = "apply" /\ OnBedrock(cnode)) =>
          RLe(RNeg(sub'[cnode].handed),
              RAdd(alluv[cnode], RMul(run.dtmax, CapacityNow(cnode))))]_vars

\* a node on bedrock whose erosion the bedrock limit has cut short: it has
\* been lowered by less than the excess capacity asked for
C26_Witness ==
  /\ run.variant = "StreamErode" /\ run.pc \in {"apply", "time"}
  /\ \E n \in Nodes :
       /\ sub[n].done /\ RNegative(sub[n].handed)
       /\ RGt(sub[n].handed,
              RMul(RDiv(RSub(sub[n].qsinAt[1], Qs[n]), VArea(n)), run.dtmax))
       /\ RLt(alluv[n], kAlluvMin)

\* the sum, over the layers within the channel depth, of the weighted
\* capacities the transport law returns for node n as it stands
LayerSum(n) ==
  ChanCapacity(n, [i |-> 0, depck |-> RZero, qs |-> RZero, qsm |-> Qsm[n],
                   tau |-> tau[n], last |-> RZero, ok |-> TRUE]).qs

\* C30: in DetachErode, when the rate pass is through, the stored Qs of every
\* active node is the sum of the weighted capacities returned for the
\* layers within its channel depth, the value the rate pass classified the
\* node with.
C30_StoredQsIsLayerSum ==
  (run.variant = "DetachErode" /\ run.pc = "step") =>
    \A n \in Nodes : Qs[n] = LayerSum(n)

---------------------------------------------------------------------------
(* Claims about what a detachment-capacity call leaves on the node.         *)

\* a call of one of the three shapes has been made
DetachCalled == lawCall.shape # "none"

\* the shear stress and the rate the law's formula gives for the node and
\* layer of the last call
CalledStress ==
  RMul(bedErode.kt,
       RMul(RPow(RDiv(hydro[lawCall.node].Q, hydro[lawCall.node].W), bedErode.mb),
            RPow(slope[lawCall.node], bedErode.nb)))
CalledRate ==
  RMul(layers[lawCall.node][lawCall.lyr + 1].erody,
       RPow(RMax(RSub(CalledStress, hydro[lawCall.node].tauc), RZero), bedErode.pb))

\* what a call that returns leaves on a node that is not flooded
StoredByShape ==
  /\ tau[lawCall.node] = CalledStress
  /\ lawCall.shape \in {"rate", "layer"} =>
       (lawCall.ret = CalledRate /\ DrDt[lawCall.node] = RNeg(lawCall.ret))
  /\ lawCall.shape = "depth" =>
       (lawCall.ret = RMul(CalledRate, lawCall.dt)
        /\ DrDt[lawCall.node] = lawCall.preDrDt)

\* a call that returned 0 and left the node as it was
ReturnedZeroUntouched ==
  /\ lawCall.ok /\ lawCall.ret = RZero
  /\ tau[lawCall.node] = lawCall.preTau
  /\ DrDt[lawCall.node] = lawCall.preDrDt

---------------------------------------------------------------------------
(* Claims about the sub-steps of the hillslope diffusion.                   *)

\* Diffuse under the scheduling of a sequential program: a call that has
\* not come to its end takes its next step
FairSpecDiffuse == SpecDiffuse /\ ([]<>~Running \/ []<><<NextDiffuse>>_vars)

\* the edges that bound the step, and the bound of each
BoundingEdges ==
  {k \in 1..Len(net.edges) : RGt(RMul(net.kd, net.edges[k].vlen), <<1, 1000000>>)}
EdgeBound(k) ==
  RMul(<<1, 10>>, RDiv(net.edges[k].len, RMul(net.kd, net.edges[k].vlen)))

\* min(rt, least bound of the bounding edges)
StabilityBound ==
  RSetMin([k \in 1..Len(net.edges) |-> EdgeBound(k)], BoundingEdges, run.dtg0)

FaceVolume(k) ==
  RMul(RMul(RMul(net.kd,
                 RDiv(RSub(ZAtStep(net.edges[k].o), ZAtStep(net.edges[k].d)),
                      net.edges[k].len)),
            net.edges[k].vlen),
       run.dtmax)

\* the volume that leaves node n across all its faces
VolumeOut(n) ==
  RSetSum([k \in 1..Len(net.edges) |-> FaceVolume(k)],
          {k \in 1..Len(net.edges) : net.edges[k].o = n})

\* the volume of the active nodes: sum of elevation x cell area
ActiveVolume(elev) == RSetSum([n \in Nodes |-> RMul(elev[n], VArea(n))], Nodes)

\* C29: hillslope diffusion with noDepoFlag off: in each sub-step every
\* face contributes once, so that a node's Qsin gathers minus the volume
\* that leaves it across its faces; each transfer takes from one node what
\* it gives to another, so the Qsin of all nodes keep their sum; and the
\* change of the sum of z x cell area over the active nodes is minus the
\* volume that went to the nodes that are not active.
C29_VolumeBalance ==
  /\ []((run.variant = "Diffuse" /\ net.noDepoFlag = 0 /\ run.pc = "time") =>
          /\ \A n \in Nodes : sub[n].acc = RNeg(VolumeOut(n))
          /\ RSub(ActiveVolume(z), ActiveVolume([n \in Nodes |-> sub[n].z0])) =
               RSetSum([n \in AllNodes |-> VolumeOut(n)], AllNodes \ Nodes))
  /\ [][(run.variant = "Diffuse" /\ run.pc = "edges") =>
          /\ RSetSum(Qsin', AllNodes) = RSetSum(Qsin, AllNodes)
          /\ \A n \in AllNodes \ {net.edges[run.i].o, net.edges[run.i].d} :
               Qsin'[n] = Qsin[n]]_vars

\* a sub-step in which volume has gone to the outlet and the active nodes
\* have lost it
C29_Witness ==
  /\ run.variant = "Diffuse" /\ net.noDepoFlag = 0 /\ run.pc = "time"
  /\ run.nsub >= 1
  /\ RPos(RSetSum([n \in AllNodes |-> VolumeOut(n)], Nodes))
  /\ RLt(ActiveVolume(z), ActiveVolume([n \in Nodes |-> sub[n].z0]))
  /\ \E n \in Nodes : RPos(sub[n].acc)

=============================================================================
